---- MODULE Spec2Model ----
(***************************************************************************)
(* Block-tiled kernels of Triton-Puzzles-Lite (src/puzzles.py) as a state  *)
(* machine.  A launch kernel[grid](...) creates one program instance per   *)
(* grid cell; an instance is a sequence of steps (one per loop iteration   *)
(* or per load / store statement) and the instances interleave freely.     *)
(*                                                                         *)
(* Values are exact: integers for the additive kernels, and for the        *)
(* exponential kernels Laurent polynomials in e with integer coefficients  *)
(* (e is transcendental, so two such sums are equal as reals iff they are  *)
(* equal as polynomials).  Floating-point rounding is not modelled.        *)
(***************************************************************************)
EXTENDS Integers, Sequences, FiniteSets, TLC

VARIABLES
    kernel,   \* name of the launched kernel
    cfg,      \* its scalar arguments: extents (N0, T, ...) and block sizes
    grid,     \* the launch grid <<g0, g1, g2>>
    mem,      \* buffers by name, each a function from flat offset to value
    pc,       \* position of every program instance
    loc,      \* local variables of every program instance
    stores,   \* how often each offset of the output buffer was stored to
    loaded,   \* names of the buffers some instance has loaded from
    oob,      \* some load or store dereferenced an offset outside its buffer
    aborted   \* the run was aborted by a failed static assertion or shape error

vars == <<kernel, cfg, grid, mem, pc, loc, stores, loaded, oob, aborted>>

----------------------------------------------------------------------------
(* Bounds of the model *)

\* extents of the streaming and pointwise kernels range over 1..MaxExtent
MaxExtent == 3
\* block sizes are the powers of two 2^0 .. 2^MaxBlockExp
MaxBlockExp == 1
\* launches with more program instances than this are not explored
MaxInstances == 2
\* input buffers are Fill(seed, n) for seed in 0..MaxSeed
MaxSeed == 2
\* input values range over -MaxVal..MaxVal
MaxVal == 1

Extents == 1..MaxExtent
BlockSizes == {2^i : i \in 0..MaxBlockExp}
Seeds == 0..MaxSeed

\* a deterministic family of input buffers of n elements
Fill(seed, n) ==
    [o \in 0..(n - 1) |-> ((seed + o * (seed + 1)) % (2 * MaxVal + 1)) - MaxVal]

Ones(n) == [o \in 0..(n - 1) |-> 1]
Zeros(n) == [o \in 0..(n - 1) |-> 0]

----------------------------------------------------------------------------
(* Grid and masked memory access *)

cdiv(a, b) == (a + b - 1) \div b

\* the program instances of the launch: one id vector per grid cell
Instances == (0..(grid[1] - 1)) \X (0..(grid[2] - 1)) \X (0..(grid[3] - 1))

NumInstances(g) == g[1] * g[2] * g[3]

\* tl.arange(0, n) exists only for a power of two n ("all shapes in Triton need
\* to be powers of two"); for any other n the kernel raises before its first access
arange_defined(n) == \E i \in 0..30 : n = 2^i

\* tl.arange(0, n) as the set of lanes, for n with arange_defined(n)
Lanes(n) == 0..(n - 1)

RECURSIVE SumRange(_, _, _)
\* f[lo] + ... + f[hi]
SumRange(f, lo, hi) == IF lo > hi THEN 0 ELSE f[lo] + SumRange(f, lo + 1, hi)

\* the value a masked-off lane of tl.load(ptr, mask=mask) holds
LoadFill == 0

\* tl.load(ptr + off, mask=msk): per lane the buffer's element, or the fill
LoadTile(buf, off, msk) ==
    [l \in DOMAIN off |->
        IF msk[l] /\ off[l] \in DOMAIN mem[buf] THEN mem[buf][off[l]] ELSE LoadFill]

\* a masked-on lane of a load or store addresses an offset outside the buffer
OutOfBounds(buf, off, msk) ==
    \E l \in DOMAIN off : msk[l] /\ off[l] \notin DOMAIN mem[buf]

StoreTile_mask_ignored(buf, off, val, msk) ==
    [o \in DOMAIN mem[buf] |->
        IF \E l \in DOMAIN off : off[l] = o
        THEN val[CHOOSE l \in DOMAIN off : off[l] = o]
        ELSE mem[buf][o]]

\* tl.store(ptr + off, val, mask=msk): only masked-on lanes change the buffer
StoreTile(buf, off, val, msk) ==
    [o \in DOMAIN mem[buf] |->
        IF \E l \in DOMAIN off : msk[l] /\ off[l] = o
        THEN val[CHOOSE l \in DOMAIN off : msk[l] /\ off[l] = o]
        ELSE mem[buf][o]]

\* the store counts after tl.store(ptr + off, val, mask=msk)
CountStores(off, msk) ==
    [o \in DOMAIN stores |->
        stores[o] + Cardinality({l \in DOMAIN off : msk[l] /\ off[l] = o})]

\* a launch: every instance at its first step, nothing loaded or stored yet
Launch(name, c, g, m, l0) ==
    /\ kernel = name
    /\ cfg = c
    /\ grid = g
    /\ mem = m
    /\ pc = [p \in (0..(g[1] - 1)) \X (0..(g[2] - 1)) \X (0..(g[3] - 1)) |-> "run"]
    /\ loc = [p \in (0..(g[1] - 1)) \X (0..(g[2] - 1)) \X (0..(g[3] - 1)) |-> l0]
    /\ stores = [o \in DOMAIN m.z |-> 0]
    /\ loaded = {}
    /\ oob = FALSE
    /\ aborted = FALSE

AllDone == \A p \in Instances : pc[p] = "done"

----------------------------------------------------------------------------
(* Puzzle 7: sum_kernel *)

sum_idx_i_no_block(p) == [a \in Lanes(cfg.B0) |-> a]
sum_idx_i(p) == [a \in Lanes(cfg.B0) |-> p[1] * cfg.B0 + a]
sum_mask_i(p) == [a \in Lanes(cfg.B0) |-> sum_idx_i(p)[a] < cfg.N0]
sum_idx_j(k) == [b \in Lanes(cfg.B1) |-> k + b]
sum_mask_j_unmasked(k) == [b \in Lanes(cfg.B1) |-> TRUE]
sum_mask_j(k) == [b \in Lanes(cfg.B1) |-> sum_idx_j(k)[b] < cfg.T]
sum_idx_ij(p, k) ==
    [ab \in Lanes(cfg.B0) \X Lanes(cfg.B1) |->
        sum_idx_i(p)[ab[1]] * cfg.T + sum_idx_j(k)[ab[2]]]
sum_mask_ij(p, k) ==
    [ab \in Lanes(cfg.B0) \X Lanes(cfg.B1) |->
        sum_mask_i(p)[ab[1]] /\ sum_mask_j(k)[ab[2]]]

\* vals.sum(axis=1) of a [B0, B1] tile
RowSums(vals, B0, B1) ==
    [a \in Lanes(B0) |-> SumRange([b \in Lanes(B1) |-> vals[<<a, b>>]], 0, B1 - 1)]

\* one iteration of "for idx_j_start in tl.range(0, T, B1)"
sum_kernel_loop(p) ==
    /\ kernel = "sum_kernel" /\ pc[p] = "run" /\ loc[p].k < cfg.T
    /\ LET vals == LoadTile("x", sum_idx_ij(p, loc[p].k), sum_mask_ij(p, loc[p].k))
           part == RowSums(vals, cfg.B0, cfg.B1)
       IN  loc' = [loc EXCEPT ![p] =
                      [k |-> loc[p].k + cfg.B1,
                       sums |-> [a \in Lanes(cfg.B0) |-> loc[p].sums[a] + part[a]]]]
    /\ loaded' = loaded \cup {"x"}
    /\ oob' = (oob \/ OutOfBounds("x", sum_idx_ij(p, loc[p].k), sum_mask_ij(p, loc[p].k)))
    /\ UNCHANGED <<kernel, cfg, grid, mem, pc, stores, aborted>>

\* tl.store(z_ptr + idx_i, sums, mask=mask_i) after the loop
sum_kernel_store(p) ==
    /\ kernel = "sum_kernel" /\ pc[p] = "run" /\ loc[p].k >= cfg.T
    /\ mem' = [mem EXCEPT !.z = StoreTile("z", sum_idx_i(p), loc[p].sums, sum_mask_i(p))]
    /\ stores' = CountStores(sum_idx_i(p), sum_mask_i(p))
    /\ oob' = (oob \/ OutOfBounds("z", sum_idx_i(p), sum_mask_i(p)))
    /\ pc' = [pc EXCEPT ![p] = "done"]
    /\ UNCHANGED <<kernel, cfg, grid, loc, loaded, aborted>>

\* sum_kernel[(cdiv(N0, B0), 1, 1)](x, z, N0, N1, T, B0, B1)
sum_launch(N0, T, B0, B1, x) ==
    Launch("sum_kernel", [N0 |-> N0, T |-> T, B0 |-> B0, B1 |-> B1],
           <<cdiv(N0, B0), 1, 1>>,
           [x |-> x, z |-> Zeros(N0)],
           [k |-> 0, sums |-> [a \in Lanes(B0) |-> 0]])

\* the Puzzle 7 test: a [4, 200] input with B0 = 1, B1 = 32
Puzzle7N0 == 4
Puzzle7T == 200
Puzzle7B0 == 1
Puzzle7B1 == 32

InitSum ==
    \/ \E N0 \in Extents, T \in Extents, B0 \in BlockSizes, B1 \in BlockSizes,
          s \in Seeds :
          /\ cdiv(N0, B0) <= MaxInstances
          /\ sum_launch(N0, T, B0, B1, Fill(s, N0 * T))
    \/ sum_launch(Puzzle7N0, Puzzle7T, Puzzle7B0, Puzzle7B1, Ones(Puzzle7N0 * Puzzle7T))

NextSum ==
    \/ \E p \in Instances : sum_kernel_loop(p)
    \/ \E p \in Instances : sum_kernel_store(p)

SpecSum == InitSum /\ [][NextSum]_vars

\* sum_spec: x.sum(1)
sum_spec(x, N0, T) ==
    [i \in 0..(N0 - 1) |-> SumRange([j \in 0..(T - 1) |-> x[i * T + j]], 0, T - 1)]

\* C8: once every instance of sum_kernel has finished, z[i] is the sum of row i
\* of x over exactly the T in-bounds columns and every z[i] was stored exactly
\* once; for the 4x200 matrix of ones with B0 = 1, B1 = 32 every z[i] is 200.
C8_SumMatchesSpec ==
    (kernel = "sum_kernel" /\ AllDone) =>
        /\ mem.z = sum_spec(mem.x, cfg.N0, cfg.T)
        /\ \A i \in DOMAIN stores : stores[i] = 1
        /\ (cfg.N0 = Puzzle7N0 /\ cfg.T = Puzzle7T /\ cfg.B0 = Puzzle7B0
              /\ cfg.B1 = Puzzle7B1 /\ mem.x = Ones(Puzzle7N0 * Puzzle7T))
            => mem.z = [i \in 0..(Puzzle7N0 - 1) |-> 200]

\* a finished run whose chunk size does not divide T and whose block size does
\* not divide N0, with a non-zero result
C8_Witness ==
    /\ kernel = "sum_kernel" /\ AllDone
    /\ cfg.T % cfg.B1 # 0 /\ cfg.N0 % cfg.B0 # 0
    /\ \E i \in DOMAIN mem.z : mem.z[i] # 0

----------------------------------------------------------------------------
(* Puzzle 1: add_kernel (a single unmasked block) *)

add_off_x == [a \in Lanes(cfg.B0) |-> a]
AllLanes(off) == [l \in DOMAIN off |-> TRUE]

add_constant_dropped(v) == v
\* x = x + 10.0
add_constant(v) == v + 10

\* x = tl.load(x_ptr + off_x)
add_kernel_load(p) ==
    /\ kernel = "add_kernel" /\ pc[p] = "run"
    /\ loc' = [loc EXCEPT ![p] = [x |-> LoadTile("x", add_off_x, AllLanes(add_off_x))]]
    /\ loaded' = loaded \cup {"x"}
    /\ oob' = (oob \/ OutOfBounds("x", add_off_x, AllLanes(add_off_x)))
    /\ pc' = [pc EXCEPT ![p] = "st"]
    /\ UNCHANGED <<kernel, cfg, grid, mem, stores, aborted>>

\* x = x + 10.0; tl.store(z_ptr + off_x, x)
add_kernel_store(p) ==
    /\ kernel = "add_kernel" /\ pc[p] = "st"
    /\ LET x == [a \in Lanes(cfg.B0) |-> add_constant(loc[p].x[a])]
       IN  mem' = [mem EXCEPT !.z = StoreTile("z", add_off_x, x, AllLanes(add_off_x))]
    /\ stores' = CountStores(add_off_x, AllLanes(add_off_x))
    /\ oob' = (oob \/ OutOfBounds("z", add_off_x, AllLanes(add_off_x)))
    /\ pc' = [pc EXCEPT ![p] = "done"]
    /\ UNCHANGED <<kernel, cfg, grid, loc, loaded, aborted>>

\* add_kernel[(cdiv(N0, B0), 1, 1)](x, z, N0, B0)
add_launch(N0, B0, x) ==
    Launch("add_kernel", [N0 |-> N0, B0 |-> B0], <<cdiv(N0, B0), 1, 1>>,
           [x |-> x, z |-> Zeros(N0)], [x |-> <<>>])

\* the Puzzle 1 test: a vector of 32 elements, one block of 32
Puzzle1N0 == 32

----------------------------------------------------------------------------
(* Puzzle 2: add_mask2_kernel *)

add2_idx(p) == [a \in Lanes(cfg.B0) |-> p[1] * cfg.B0 + a]
add2_msk_unmasked(p) == [a \in Lanes(cfg.B0) |-> TRUE]
add2_msk(p) == [a \in Lanes(cfg.B0) |-> add2_idx(p)[a] < cfg.N0]

\* idx = block_id * B0 + tl.arange(0, B0) with B0 not a power of two: the launch
\* raises, nothing is loaded or stored
add_mask2_kernel_arange_error(p) ==
    /\ kernel = "add_mask2_kernel" /\ pc[p] = "run" /\ ~arange_defined(cfg.B0)
    /\ ~aborted
    /\ aborted' = TRUE
    /\ UNCHANGED <<kernel, cfg, grid, mem, pc, loc, stores, loaded, oob>>

\* x = tl.load(x_ptr + idx, mask=msk)
add_mask2_kernel_load(p) ==
    /\ kernel = "add_mask2_kernel" /\ pc[p] = "run" /\ arange_defined(cfg.B0)
    /\ loc' = [loc EXCEPT ![p] = [x |-> LoadTile("x", add2_idx(p), add2_msk(p))]]
    /\ loaded' = loaded \cup {"x"}
    /\ oob' = (oob \/ OutOfBounds("x", add2_idx(p), add2_msk(p)))
    /\ pc' = [pc EXCEPT ![p] = "st"]
    /\ UNCHANGED <<kernel, cfg, grid, mem, stores, aborted>>

\* x = x + 10.0; tl.store(z_ptr + idx, x, mask=msk)
add_mask2_kernel_store(p) ==
    /\ kernel = "add_mask2_kernel" /\ pc[p] = "st"
    /\ LET x == [a \in Lanes(cfg.B0) |-> add_constant(loc[p].x[a])]
       IN  mem' = [mem EXCEPT !.z = StoreTile("z", add2_idx(p), x, add2_msk(p))]
    /\ stores' = CountStores(add2_idx(p), add2_msk(p))
    /\ oob' = (oob \/ OutOfBounds("z", add2_idx(p), add2_msk(p)))
    /\ pc' = [pc EXCEPT ![p] = "done"]
    /\ UNCHANGED <<kernel, cfg, grid, loc, loaded, aborted>>

\* add_mask2_kernel[(cdiv(N0, B0), 1, 1)](x, z, N0, B0)
add_mask2_launch(N0, B0, x) ==
    Launch("add_mask2_kernel", [N0 |-> N0, B0 |-> B0], <<cdiv(N0, B0), 1, 1>>,
           [x |-> x, z |-> Zeros(N0)], [x |-> <<>>])

----------------------------------------------------------------------------
(* Puzzle 3: add_vec_kernel, one instance, no masks; z is [B1, B0] *)

\* idx_x = tl.arange(0, B0)
add_vec_idx_x == [i \in Lanes(cfg.B0) |-> i]
\* idx_y = tl.arange(0, B1)
add_vec_idx_y == [j \in Lanes(cfg.B1) |-> j]
\* idx_z = dim0 + dim1 = B0 * tl.arange(0, B1)[:, None] + tl.arange(0, B0)[None, :]
add_vec_idx_z == [ji \in Lanes(cfg.B1) \X Lanes(cfg.B0) |-> cfg.B0 * ji[1] + ji[2]]

\* x_value = tl.load(x_ptr + idx_x)
add_vec_kernel_load_x(p) ==
    /\ kernel = "add_vec_kernel" /\ pc[p] = "run"
    /\ loc' = [loc EXCEPT ![p].x = LoadTile("x", add_vec_idx_x, AllLanes(add_vec_idx_x))]
    /\ loaded' = loaded \cup {"x"}
    /\ oob' = (oob \/ OutOfBounds("x", add_vec_idx_x, AllLanes(add_vec_idx_x)))
    /\ pc' = [pc EXCEPT ![p] = "ld_y"]
    /\ UNCHANGED <<kernel, cfg, grid, mem, stores, aborted>>

\* y_value = tl.load(y_ptr + idx_y)
add_vec_kernel_load_y(p) ==
    /\ kernel = "add_vec_kernel" /\ pc[p] = "ld_y"
    /\ loc' = [loc EXCEPT ![p].y = LoadTile("y", add_vec_idx_y, AllLanes(add_vec_idx_y))]
    /\ loaded' = loaded \cup {"y"}
    /\ oob' = (oob \/ OutOfBounds("y", add_vec_idx_y, AllLanes(add_vec_idx_y)))
    /\ pc' = [pc EXCEPT ![p] = "st"]
    /\ UNCHANGED <<kernel, cfg, grid, mem, stores, aborted>>

\* z_value = x_value + y_value; tl.store(z_ptr + idx_z, z_value)
add_vec_kernel_store(p) ==
    /\ kernel = "add_vec_kernel" /\ pc[p] = "st"
    /\ LET z_value == [ji \in Lanes(cfg.B1) \X Lanes(cfg.B0) |->
                          loc[p].x[ji[2]] + loc[p].y[ji[1]]]
       IN  mem' = [mem EXCEPT !.z = StoreTile("z", add_vec_idx_z, z_value,
                                              AllLanes(add_vec_idx_z))]
    /\ stores' = CountStores(add_vec_idx_z, AllLanes(add_vec_idx_z))
    /\ oob' = (oob \/ OutOfBounds("z", add_vec_idx_z, AllLanes(add_vec_idx_z)))
    /\ pc' = [pc EXCEPT ![p] = "done"]
    /\ UNCHANGED <<kernel, cfg, grid, loc, loaded, aborted>>

\* add_vec_kernel[(1, 1, 1)](x, y, z, N0, N1, B0, B1), block sizes equal to the lengths
add_vec_launch(N0, N1, x, y) ==
    Launch("add_vec_kernel", [N0 |-> N0, N1 |-> N1, B0 |-> N0, B1 |-> N1],
           <<1, 1, 1>>, [x |-> x, y |-> y, z |-> Zeros(N1 * N0)],
           [x |-> <<>>, y |-> <<>>])

----------------------------------------------------------------------------
(* Puzzles 4, 5 and 6: the outer-product kernels over a [N1, N0] output *)

\* idx_x / idx_i = block_id_x * B0 + tl.arange(0, B0)
outer_idx_x(p) == [i \in Lanes(cfg.B0) |-> p[1] * cfg.B0 + i]
\* idx_y / idx_j = block_id_y * B1 + tl.arange(0, B1)
outer_idx_y(p) == [j \in Lanes(cfg.B1) |-> p[2] * cfg.B1 + j]
outer_mask_x(p) == [i \in Lanes(cfg.B0) |-> outer_idx_x(p)[i] < cfg.N0]
outer_mask_y(p) == [j \in Lanes(cfg.B1) |-> outer_idx_y(p)[j] < cfg.N1]
\* idx_z = dim0 + dim1, shape [B1, B0]
outer_idx_z(p) ==
    [ji \in Lanes(cfg.B1) \X Lanes(cfg.B0) |->
        cfg.N0 * outer_idx_y(p)[ji[1]] + outer_idx_x(p)[ji[2]]]
outer_mask_z(p) ==
    [ji \in Lanes(cfg.B1) \X Lanes(cfg.B0) |->
        outer_mask_x(p)[ji[2]] /\ outer_mask_y(p)[ji[1]]]

\* a comparison result used as a number
BoolToInt(b) == IF b THEN 1 ELSE 0

\* x_value = tl.load(x_ptr + idx_x, mask=mask_x)
outer_load_x(p) ==
    /\ kernel \in {"add_vec_block_kernel", "mul_relu_block_kernel"} /\ pc[p] = "run"
    /\ loc' = [loc EXCEPT ![p].x = LoadTile("x", outer_idx_x(p), outer_mask_x(p))]
    /\ loaded' = loaded \cup {"x"}
    /\ oob' = (oob \/ OutOfBounds("x", outer_idx_x(p), outer_mask_x(p)))
    /\ pc' = [pc EXCEPT ![p] = "ld_y"]
    /\ UNCHANGED <<kernel, cfg, grid, mem, stores, aborted>>

\* y_value = tl.load(y_ptr + idx_y, mask=mask_y)
outer_load_y(p) ==
    /\ kernel \in {"add_vec_block_kernel", "mul_relu_block_kernel"} /\ pc[p] = "ld_y"
    /\ loc' = [loc EXCEPT ![p].y = LoadTile("y", outer_idx_y(p), outer_mask_y(p))]
    /\ loaded' = loaded \cup {"y"}
    /\ oob' = (oob \/ OutOfBounds("y", outer_idx_y(p), outer_mask_y(p)))
    /\ pc' = [pc EXCEPT ![p] = "st"]
    /\ UNCHANGED <<kernel, cfg, grid, mem, stores, aborted>>

\* z_value = x_value + y_value; tl.store(z_ptr + idx_z, z_value, mask=mask_z)
add_vec_block_kernel_store(p) ==
    /\ kernel = "add_vec_block_kernel" /\ pc[p] = "st"
    /\ LET z_value == [ji \in Lanes(cfg.B1) \X Lanes(cfg.B0) |->
                          loc[p].x[ji[2]] + loc[p].y[ji[1]]]
       IN  mem' = [mem EXCEPT !.z = StoreTile("z", outer_idx_z(p), z_value, outer_mask_z(p))]
    /\ stores' = CountStores(outer_idx_z(p), outer_mask_z(p))
    /\ oob' = (oob \/ OutOfBounds("z", outer_idx_z(p), outer_mask_z(p)))
    /\ pc' = [pc EXCEPT ![p] = "done"]
    /\ UNCHANGED <<kernel, cfg, grid, loc, loaded, aborted>>

\* z_value = x_value * y_value; z_value = z_value * (z_value > 0); tl.store(...)
mul_relu_block_kernel_store(p) ==
    /\ kernel = "mul_relu_block_kernel" /\ pc[p] = "st"
    /\ LET prod == [ji \in Lanes(cfg.B1) \X Lanes(cfg.B0) |->
                       loc[p].x[ji[2]] * loc[p].y[ji[1]]]
           z_value == [ji \in Lanes(cfg.B1) \X Lanes(cfg.B0) |->
                          prod[ji] * BoolToInt(prod[ji] > 0)]
       IN  mem' = [mem EXCEPT !.z = StoreTile("z", outer_idx_z(p), z_value, outer_mask_z(p))]
    /\ stores' = CountStores(outer_idx_z(p), outer_mask_z(p))
    /\ oob' = (oob \/ OutOfBounds("z", outer_idx_z(p), outer_mask_z(p)))
    /\ pc' = [pc EXCEPT ![p] = "done"]
    /\ UNCHANGED <<kernel, cfg, grid, loc, loaded, aborted>>

\* x = tl.load(x_ptr + idx_ji, mask=mask_ji)
mul_relu_block_back_kernel_load_x(p) ==
    /\ kernel = "mul_relu_block_back_kernel" /\ pc[p] = "run"
    /\ loc' = [loc EXCEPT ![p].x = LoadTile("x", outer_idx_z(p), outer_mask_z(p))]
    /\ loaded' = loaded \cup {"x"}
    /\ oob' = (oob \/ OutOfBounds("x", outer_idx_z(p), outer_mask_z(p)))
    /\ pc' = [pc EXCEPT ![p] = "ld_y"]
    /\ UNCHANGED <<kernel, cfg, grid, mem, stores, aborted>>

\* y = tl.load(y_ptr + idx_j, mask=mask_j)
mul_relu_block_back_kernel_load_y(p) ==
    /\ kernel = "mul_relu_block_back_kernel" /\ pc[p] = "ld_y"
    /\ loc' = [loc EXCEPT ![p].y = LoadTile("y", outer_idx_y(p), outer_mask_y(p))]
    /\ loaded' = loaded \cup {"y"}
    /\ oob' = (oob \/ OutOfBounds("y", outer_idx_y(p), outer_mask_y(p)))
    /\ pc' = [pc EXCEPT ![p] = "ld_dz"]
    /\ UNCHANGED <<kernel, cfg, grid, mem, stores, aborted>>

\* dz = tl.load(dz_ptr + idx_ji, mask=mask_ji)
mul_relu_block_back_kernel_load_dz(p) ==
    /\ kernel = "mul_relu_block_back_kernel" /\ pc[p] = "ld_dz"
    /\ loc' = [loc EXCEPT ![p].dz = LoadTile("dz", outer_idx_z(p), outer_mask_z(p))]
    /\ loaded' = loaded \cup {"dz"}
    /\ oob' = (oob \/ OutOfBounds("dz", outer_idx_z(p), outer_mask_z(p)))
    /\ pc' = [pc EXCEPT ![p] = "st"]
    /\ UNCHANGED <<kernel, cfg, grid, mem, stores, aborted>>

relu_grad_one_at_zero(u) == IF u >= 0 THEN 1 ELSE 0
\* tl.where(_mul > 0.0, 1.0, 0.0)
relu_grad(u) == IF u > 0 THEN 1 ELSE 0

\* dx = dz * tl.where(_mul > 0.0, 1.0, 0.0) * y_broadcast; tl.store(dx_ptr + idx_ji, dx, ...)
mul_relu_block_back_kernel_store(p) ==
    /\ kernel = "mul_relu_block_back_kernel" /\ pc[p] = "st"
    /\ LET mul == [ji \in Lanes(cfg.B1) \X Lanes(cfg.B0) |->
                      loc[p].x[ji] * loc[p].y[ji[1]]]
           dx == [ji \in Lanes(cfg.B1) \X Lanes(cfg.B0) |->
                     loc[p].dz[ji] * relu_grad(mul[ji]) * loc[p].y[ji[1]]]
       IN  mem' = [mem EXCEPT !.z = StoreTile("z", outer_idx_z(p), dx, outer_mask_z(p))]
    /\ stores' = CountStores(outer_idx_z(p), outer_mask_z(p))
    /\ oob' = (oob \/ OutOfBounds("z", outer_idx_z(p), outer_mask_z(p)))
    /\ pc' = [pc EXCEPT ![p] = "done"]
    /\ UNCHANGED <<kernel, cfg, grid, loc, loaded, aborted>>

\* kernel[(cdiv(N0, B0), cdiv(N1, B1), 1)](x, y, z, N0, N1, B0, B1)
outer_launch(name, N0, N1, B0, B1, m) ==
    Launch(name, [N0 |-> N0, N1 |-> N1, B0 |-> B0, B1 |-> B1],
           <<cdiv(N0, B0), cdiv(N1, B1), 1>>, m,
           [x |-> <<>>, y |-> <<>>, dz |-> <<>>])

InitPointwise ==
    \/ \E B0 \in BlockSizes, s \in Seeds : add_launch(B0, B0, Fill(s, B0))
    \/ add_launch(Puzzle1N0, Puzzle1N0, Ones(Puzzle1N0))
    \/ \E N0 \in Extents, B0 \in BlockSizes, s \in Seeds :
          /\ cdiv(N0, B0) <= MaxInstances
          /\ add_mask2_launch(N0, B0, Fill(s, N0))
    \/ \E N0 \in BlockSizes, N1 \in BlockSizes, s \in Seeds :
          add_vec_launch(N0, N1, Fill(s, N0), Fill(s + 1, N1))
    \/ \E N0 \in Extents, N1 \in Extents, B0 \in BlockSizes, B1 \in BlockSizes,
          s \in Seeds, name \in {"add_vec_block_kernel", "mul_relu_block_kernel"} :
          /\ cdiv(N0, B0) * cdiv(N1, B1) <= MaxInstances
          /\ outer_launch(name, N0, N1, B0, B1,
                          [x |-> Fill(s, N0), y |-> Fill(s + 1, N1), z |-> Zeros(N1 * N0)])
    \/ \E N0 \in Extents, N1 \in Extents, B0 \in BlockSizes, B1 \in BlockSizes,
          s \in Seeds :
          /\ cdiv(N0, B0) * cdiv(N1, B1) <= MaxInstances
          /\ outer_launch("mul_relu_block_back_kernel", N0, N1, B0, B1,
                          [x |-> Fill(s, N1 * N0), y |-> Fill(s + 1, N1),
                           dz |-> Fill(s + 2, N1 * N0), z |-> Zeros(N1 * N0)])

NextPointwise ==
    \/ \E p \in Instances : add_kernel_load(p)
    \/ \E p \in Instances : add_kernel_store(p)
    \/ \E p \in Instances : add_mask2_kernel_load(p)
    \/ \E p \in Instances : add_mask2_kernel_store(p)
    \/ \E p \in Instances : add_vec_kernel_load_x(p)
    \/ \E p \in Instances : add_vec_kernel_load_y(p)
    \/ \E p \in Instances : add_vec_kernel_store(p)
    \/ \E p \in Instances : outer_load_x(p)
    \/ \E p \in Instances : outer_load_y(p)
    \/ \E p \in Instances : add_vec_block_kernel_store(p)
    \/ \E p \in Instances : mul_relu_block_kernel_store(p)
    \/ \E p \in Instances : mul_relu_block_back_kernel_load_x(p)
    \/ \E p \in Instances : mul_relu_block_back_kernel_load_y(p)
    \/ \E p \in Instances : mul_relu_block_back_kernel_load_dz(p)
    \/ \E p \in Instances : mul_relu_block_back_kernel_store(p)

SpecPointwise == InitPointwise /\ [][NextPointwise]_vars

\* C9 as stated: add_kernel run on a vector of 32 ones with block size 32
\* leaves every one of the 32 output elements equal to 10.
C9_AddOnes32_Is10 ==
    (kernel = "add_kernel" /\ AllDone /\ cfg.N0 = Puzzle1N0 /\ cfg.B0 = Puzzle1N0
       /\ mem.x = Ones(Puzzle1N0)) => mem.z = [i \in 0..(Puzzle1N0 - 1) |-> 10]

\* C9 as amended: add_kernel run on a vector of 32 ones with block size 32
\* leaves every one of the 32 output elements equal to 11 (the input plus 10,
\* the value of add_spec), each stored exactly once.
C9_AddOnes32_Is11 ==
    (kernel = "add_kernel" /\ AllDone /\ cfg.N0 = Puzzle1N0 /\ cfg.B0 = Puzzle1N0
       /\ mem.x = Ones(Puzzle1N0)) =>
        /\ mem.z = [i \in 0..(Puzzle1N0 - 1) |-> 11]
        /\ \A i \in DOMAIN stores : stores[i] = 1

\* the Puzzle 1 run on 32 ones has finished
C9_Witness ==
    /\ kernel = "add_kernel" /\ AllDone /\ cfg.N0 = Puzzle1N0 /\ cfg.B0 = Puzzle1N0
    /\ mem.x = Ones(Puzzle1N0) /\ DOMAIN mem.z = 0..31

----------------------------------------------------------------------------
(* Puzzle 11: dot_kernel; x is [N2, N1, MID], y is [N2, MID, N0], z is [N2, N1, N0] *)

dot_idx_b(p) == [b \in Lanes(cfg.B2) |-> p[3] * cfg.B2 + b]
dot_idx_m(p) == [m \in Lanes(cfg.B1) |-> p[2] * cfg.B1 + m]
dot_idx_n(p) == [n \in Lanes(cfg.B0) |-> p[1] * cfg.B0 + n]
dot_idx_k(k) == [l \in Lanes(cfg.B_MID) |-> k + l]
dot_msk_k_unmasked(k) == [l \in Lanes(cfg.B_MID) |-> TRUE]
\* (idx_k < MID), the contraction-axis term of msk_A and msk_B
dot_msk_k(k) == [l \in Lanes(cfg.B_MID) |-> dot_idx_k(k)[l] < cfg.MID]

dot_idx_A(p, k) ==
    [t \in Lanes(cfg.B2) \X Lanes(cfg.B1) \X Lanes(cfg.B_MID) |->
        dot_idx_b(p)[t[1]] * cfg.N1 * cfg.MID + dot_idx_m(p)[t[2]] * cfg.MID
          + dot_idx_k(k)[t[3]]]
dot_msk_A(p, k) ==
    [t \in Lanes(cfg.B2) \X Lanes(cfg.B1) \X Lanes(cfg.B_MID) |->
        dot_idx_b(p)[t[1]] < cfg.N2 /\ dot_idx_m(p)[t[2]] < cfg.N1
          /\ dot_msk_k(k)[t[3]]]

dot_idx_B(p, k) ==
    [t \in Lanes(cfg.B2) \X Lanes(cfg.B_MID) \X Lanes(cfg.B0) |->
        dot_idx_b(p)[t[1]] * cfg.MID * cfg.N0 + dot_idx_k(k)[t[2]] * cfg.N0
          + dot_idx_n(p)[t[3]]]
dot_msk_B(p, k) ==
    [t \in Lanes(cfg.B2) \X Lanes(cfg.B_MID) \X Lanes(cfg.B0) |->
        dot_idx_b(p)[t[1]] < cfg.N2 /\ dot_msk_k(k)[t[2]]
          /\ dot_idx_n(p)[t[3]] < cfg.N0]

dot_idx_C(p) ==
    [t \in Lanes(cfg.B2) \X Lanes(cfg.B1) \X Lanes(cfg.B0) |->
        dot_idx_b(p)[t[1]] * cfg.N1 * cfg.N0 + dot_idx_m(p)[t[2]] * cfg.N0
          + dot_idx_n(p)[t[3]]]
dot_msk_C(p) ==
    [t \in Lanes(cfg.B2) \X Lanes(cfg.B1) \X Lanes(cfg.B0) |->
        dot_idx_b(p)[t[1]] < cfg.N2 /\ dot_idx_m(p)[t[2]] < cfg.N1
          /\ dot_idx_n(p)[t[3]] < cfg.N0]

\* tl.dot(A, B) of a [B2, B1, K] tile with a [B2, K, B0] tile
tl_dot3(A, B, B2, B1, K, B0) ==
    [t \in Lanes(B2) \X Lanes(B1) \X Lanes(B0) |->
        SumRange([l \in Lanes(K) |-> A[<<t[1], t[2], l>>] * B[<<t[1], l, t[3]>>]],
                 0, K - 1)]

\* one iteration of "for k in tl.range(0, MID, B_MID)": load A, load B, tile += dot
dot_kernel_loop(p) ==
    /\ kernel = "dot_kernel" /\ pc[p] = "run" /\ loc[p].k < cfg.MID
    /\ LET A == LoadTile("x", dot_idx_A(p, loc[p].k), dot_msk_A(p, loc[p].k))
           B == LoadTile("y", dot_idx_B(p, loc[p].k), dot_msk_B(p, loc[p].k))
           d == tl_dot3(A, B, cfg.B2, cfg.B1, cfg.B_MID, cfg.B0)
       IN  loc' = [loc EXCEPT ![p] =
                      [k |-> loc[p].k + cfg.B_MID,
                       tile |-> [t \in DOMAIN d |-> loc[p].tile[t] + d[t]]]]
    /\ loaded' = loaded \cup {"x", "y"}
    /\ oob' = (oob \/ OutOfBounds("x", dot_idx_A(p, loc[p].k), dot_msk_A(p, loc[p].k))
                   \/ OutOfBounds("y", dot_idx_B(p, loc[p].k), dot_msk_B(p, loc[p].k)))
    /\ UNCHANGED <<kernel, cfg, grid, mem, pc, stores, aborted>>

\* tl.store(z_ptr + idx_C, tile, mask=msk_C) after the loop
dot_kernel_store(p) ==
    /\ kernel = "dot_kernel" /\ pc[p] = "run" /\ loc[p].k >= cfg.MID
    /\ mem' = [mem EXCEPT !.z = StoreTile("z", dot_idx_C(p), loc[p].tile, dot_msk_C(p))]
    /\ stores' = CountStores(dot_idx_C(p), dot_msk_C(p))
    /\ oob' = (oob \/ OutOfBounds("z", dot_idx_C(p), dot_msk_C(p)))
    /\ pc' = [pc EXCEPT ![p] = "done"]
    /\ UNCHANGED <<kernel, cfg, grid, loc, loaded, aborted>>

\* dot_kernel[(cdiv(N0, B0), cdiv(N1, B1), cdiv(N2, B2))](x, y, z, N0, N1, N2, MID, ...)
dot_launch(N0, N1, N2, MID, B0, B1, B2, B_MID, x, y) ==
    Launch("dot_kernel",
           [N0 |-> N0, N1 |-> N1, N2 |-> N2, MID |-> MID,
            B0 |-> B0, B1 |-> B1, B2 |-> B2, B_MID |-> B_MID],
           <<cdiv(N0, B0), cdiv(N1, B1), cdiv(N2, B2)>>,
           [x |-> x, y |-> y, z |-> Zeros(N2 * N1 * N0)],
           [k |-> 0, tile |-> [t \in Lanes(B2) \X Lanes(B1) \X Lanes(B0) |-> 0]])

\* extents of dot_kernel range over 1..DotMaxExtent
DotMaxExtent == 2
DotExtents == 1..DotMaxExtent

InitDot ==
    \E N0 \in DotExtents, N1 \in DotExtents, N2 \in DotExtents, MID \in DotExtents,
       B0 \in BlockSizes, B1 \in BlockSizes, B2 \in BlockSizes, B_MID \in BlockSizes,
       s \in Seeds :
       /\ cdiv(N0, B0) * cdiv(N1, B1) * cdiv(N2, B2) <= MaxInstances
       /\ dot_launch(N0, N1, N2, MID, B0, B1, B2, B_MID,
                     Fill(s, N2 * N1 * MID), Fill(s + 1, N2 * MID * N0))

NextDot ==
    \/ \E p \in Instances : dot_kernel_loop(p)
    \/ \E p \in Instances : dot_kernel_store(p)

SpecDot == InitDot /\ [][NextDot]_vars

\* dot_spec: x @ y, flattened like z
dot_spec(x, y, N0, N1, N2, MID) ==
    [o \in 0..(N2 * N1 * N0 - 1) |->
        LET b == o \div (N1 * N0)
            m == (o \div N0) % N1
            n == o % N0
        IN  SumRange([l \in 0..(MID - 1) |->
                         x[b * N1 * MID + m * MID + l] * y[b * MID * N0 + l * N0 + n]],
                     0, MID - 1)]

\* C1: once every instance of dot_kernel has finished, every z[b,m,n] is the sum
\* over l < MID of x[b,m,l] * y[b,l,n] (the reference product), whether or not
\* the block sizes divide the extents: masked-off positions contributed zero.
C1_DotMatchesSpec ==
    (kernel = "dot_kernel" /\ AllDone) =>
        mem.z = dot_spec(mem.x, mem.y, cfg.N0, cfg.N1, cfg.N2, cfg.MID)

\* a finished run in which the contraction block does not divide MID and a row
\* block does not divide its extent, with a non-zero product
C1_Witness ==
    /\ kernel = "dot_kernel" /\ AllDone
    /\ cfg.MID % cfg.B_MID # 0 /\ cfg.N1 % cfg.B1 # 0
    /\ \E o \in DOMAIN mem.z : mem.z[o] # 0

----------------------------------------------------------------------------
(* Exact exponentials: a sum of terms c * e^d (c, d integers) is the function  *)
(* from the exponents d with c # 0 to their coefficients c.                    *)

RECURSIVE SumOver(_, _)
\* the sum of f[s] over the finite set S
SumOver(f, S) ==
    IF S = {} THEN 0
    ELSE LET s == CHOOSE s \in S : TRUE IN f[s] + SumOver(f, S \ {s})

PZero == [d \in {} |-> 0]
POne == [d \in {0} |-> 1]
PCoef(f, d) == IF d \in DOMAIN f THEN f[d] ELSE 0
PNorm(f) == [d \in {d \in DOMAIN f : f[d] # 0} |-> f[d]]
PAdd(f, g) == PNorm([d \in DOMAIN f \cup DOMAIN g |-> PCoef(f, d) + PCoef(g, d)])
PScale(f, c) == PNorm([d \in DOMAIN f |-> c * f[d]])
PMul(f, g) ==
    PNorm([d \in {a + b : a \in DOMAIN f, b \in DOMAIN g} |->
              SumOver([a \in DOMAIN f |-> f[a] * PCoef(g, d - a)], DOMAIN f)])

RECURSIVE PSumRange(_, _, _)
\* f[lo] + ... + f[hi] for exponential sums
PSumRange(f, lo, hi) == IF lo > hi THEN PZero ELSE PAdd(f[lo], PSumRange(f, lo + 1, hi))

\* -float("inf"): a value below every integer the kernels compute
NegInf == -1000000

\* a - b where a may be -inf and b is finite
ExtSub(a, b) == IF a = NegInf THEN NegInf ELSE a - b

\* tl.exp2(log2_e * v) = e^v, with e^(-inf) = 0
Exp2Log2e(v) == IF v = NegInf THEN PZero ELSE [d \in {v} |-> 1]

Max2(a, b) == IF a >= b THEN a ELSE b

RECURSIVE MaxRange(_, _, _)
\* the maximum of f[lo], ..., f[hi] (lo <= hi)
MaxRange(f, lo, hi) == IF lo >= hi THEN f[lo] ELSE Max2(f[lo], MaxRange(f, lo + 1, hi))

\* a quotient n / d of two exponential sums
Quot(n, d) == [n |-> n, d |-> d]
QZero == Quot(PZero, POne)
QOne == Quot(POne, POne)
QEq(a, b) == PMul(a.n, b.d) = PMul(b.n, a.d)
QAdd(a, b) == Quot(PAdd(PMul(a.n, b.d), PMul(b.n, a.d)), PMul(a.d, b.d))

RECURSIVE QSumRange(_, _, _)
QSumRange(f, lo, hi) == IF lo > hi THEN QZero ELSE QAdd(f[lo], QSumRange(f, lo + 1, hi))

----------------------------------------------------------------------------
(* Puzzle 8: softmax_kernel (two loops) *)

sm_idx_i(p) == [a \in Lanes(cfg.B0) |-> p[1] * cfg.B0 + a]
sm_mask_i(p) == [a \in Lanes(cfg.B0) |-> sm_idx_i(p)[a] < cfg.N0]
sm_idx_j(k) == [b \in Lanes(cfg.B1) |-> k + b]
sm_mask_j(k) == [b \in Lanes(cfg.B1) |-> sm_idx_j(k)[b] < cfg.T]
sm_idx_ij(p, k) ==
    [ab \in Lanes(cfg.B0) \X Lanes(cfg.B1) |->
        sm_idx_i(p)[ab[1]] * cfg.T + sm_idx_j(k)[ab[2]]]
sm_mask_ij(p, k) ==
    [ab \in Lanes(cfg.B0) \X Lanes(cfg.B1) |->
        sm_mask_i(p)[ab[1]] /\ sm_mask_j(k)[ab[2]]]

\* vals.max(1) of a [B0, B1] tile
RowMaxs(vals, B0, B1) ==
    [a \in Lanes(B0) |-> MaxRange([b \in Lanes(B1) |-> vals[<<a, b>>]], 0, B1 - 1)]

\* one iteration of the first loop: update the running max and the running sum
softmax_kernel_loop1(p) ==
    /\ kernel = "softmax_kernel" /\ pc[p] = "run" /\ loc[p].k < cfg.T
    /\ LET vals == LoadTile("x", sm_idx_ij(p, loc[p].k), sm_mask_ij(p, loc[p].k))
           last_maxs == loc[p].global_maxs
           chunk_max == RowMaxs(vals, cfg.B0, cfg.B1)
           global_maxs == [a \in Lanes(cfg.B0) |-> Max2(last_maxs[a], chunk_max[a])]
           factory == [a \in Lanes(cfg.B0) |->
                          Exp2Log2e(ExtSub(last_maxs[a], global_maxs[a]))]
           local_sum == [a \in Lanes(cfg.B0) |->
                            PSumRange([b \in Lanes(cfg.B1) |->
                                          Exp2Log2e(vals[<<a, b>>] - global_maxs[a])],
                                      0, cfg.B1 - 1)]
           sums == [a \in Lanes(cfg.B0) |->
                       PAdd(PMul(loc[p].sums[a], factory[a]), local_sum[a])]
           last == loc[p].k + cfg.B1 >= cfg.T
       IN  /\ loc' = [loc EXCEPT ![p] =
                         [k |-> IF last THEN 0 ELSE loc[p].k + cfg.B1,
                          global_maxs |-> global_maxs, sums |-> sums]]
           /\ pc' = [pc EXCEPT ![p] = IF last THEN "emit" ELSE "run"]
    /\ loaded' = loaded \cup {"x"}
    /\ oob' = (oob \/ OutOfBounds("x", sm_idx_ij(p, loc[p].k), sm_mask_ij(p, loc[p].k)))
    /\ UNCHANGED <<kernel, cfg, grid, mem, stores, aborted>>

\* one iteration of the second loop: load a chunk, normalize it and store it
softmax_kernel_loop2(p) ==
    /\ kernel = "softmax_kernel" /\ pc[p] = "emit" /\ loc[p].k < cfg.T
    /\ LET vals == LoadTile("x", sm_idx_ij(p, loc[p].k), sm_mask_ij(p, loc[p].k))
           softmaxs == [ab \in Lanes(cfg.B0) \X Lanes(cfg.B1) |->
                           Quot(Exp2Log2e(vals[ab] - loc[p].global_maxs[ab[1]]),
                                loc[p].sums[ab[1]])]
       IN  mem' = [mem EXCEPT !.z = StoreTile("z", sm_idx_ij(p, loc[p].k), softmaxs,
                                              sm_mask_ij(p, loc[p].k))]
    /\ stores' = CountStores(sm_idx_ij(p, loc[p].k), sm_mask_ij(p, loc[p].k))
    /\ loaded' = loaded \cup {"x"}
    /\ oob' = (oob \/ OutOfBounds("x", sm_idx_ij(p, loc[p].k), sm_mask_ij(p, loc[p].k))
                   \/ OutOfBounds("z", sm_idx_ij(p, loc[p].k), sm_mask_ij(p, loc[p].k)))
    /\ loc' = [loc EXCEPT ![p].k = loc[p].k + cfg.B1]
    /\ pc' = [pc EXCEPT ![p] = IF loc[p].k + cfg.B1 >= cfg.T THEN "done" ELSE "emit"]
    /\ UNCHANGED <<kernel, cfg, grid, aborted>>

\* softmax_kernel[(cdiv(N0, B0), 1, 1)](x, z, N0, N1, T, B0, B1)
softmax_launch(N0, T, B0, B1, m) ==
    Launch("softmax_kernel", [N0 |-> N0, T |-> T, B0 |-> B0, B1 |-> B1],
           <<cdiv(N0, B0), 1, 1>>, m,
           [k |-> 0, global_maxs |-> [a \in Lanes(B0) |-> NegInf],
            sums |-> [a \in Lanes(B0) |-> PZero]])

\* the constants added to every logit when the kernel is run a second time
Shifts == {c \in (-MaxVal)..MaxVal : c # 0}

\* a second run of the same launch on x + c, keeping the first run's output
softmax_rerun_shifted(c) ==
    /\ kernel = "softmax_kernel" /\ AllDone /\ "z_first" \notin DOMAIN mem
    /\ mem' = [x |-> [o \in DOMAIN mem.x |-> mem.x[o] + c],
               z |-> [o \in DOMAIN mem.z |-> QZero],
               z_first |-> mem.z]
    /\ pc' = [p \in Instances |-> "run"]
    /\ loc' = [p \in Instances |->
                  [k |-> 0, global_maxs |-> [a \in Lanes(cfg.B0) |-> NegInf],
                   sums |-> [a \in Lanes(cfg.B0) |-> PZero]]]
    /\ stores' = [o \in DOMAIN stores |-> 0]
    /\ loaded' = {}
    /\ UNCHANGED <<kernel, cfg, grid, oob, aborted>>

InitSoftmax ==
    \E N0 \in Extents, T \in Extents, B0 \in BlockSizes, B1 \in BlockSizes, s \in Seeds :
       /\ cdiv(N0, B0) <= MaxInstances
       /\ softmax_launch(N0, T, B0, B1,
                         [x |-> Fill(s, N0 * T), z |-> [o \in 0..(N0 * T - 1) |-> QZero]])

NextSoftmax ==
    \/ \E p \in Instances : softmax_kernel_loop1(p)
    \/ \E p \in Instances : softmax_kernel_loop2(p)
    \/ \E c \in Shifts : softmax_rerun_shifted(c)

SpecSoftmax == InitSoftmax /\ [][NextSoftmax]_vars

\* softmax_spec, flattened like z
softmax_spec(x, N0, T) ==
    [o \in 0..(N0 * T - 1) |->
        LET i == o \div T
            x_max == MaxRange([j \in 0..(T - 1) |-> x[i * T + j]], 0, T - 1)
        IN  Quot(Exp2Log2e(x[o] - x_max),
                 PSumRange([j \in 0..(T - 1) |-> Exp2Log2e(x[i * T + j] - x_max)],
                           0, T - 1))]

\* the sum of the stored row i of z
sm_row_sum(i) == QSumRange([j \in 0..(cfg.T - 1) |-> mem.z[i * cfg.T + j]], 0, cfg.T - 1)

\* C2: once every instance of softmax_kernel has finished, the values stored in
\* each row z[i, 0..T-1] sum to 1, for chunk sizes that divide T or not.
C2_RowsSumToOne ==
    (kernel = "softmax_kernel" /\ AllDone) =>
        \A i \in 0..(cfg.N0 - 1) : QEq(sm_row_sum(i), QOne)

\* C3: the output of a finished second run on x + c equals, element by element,
\* the output of the first run on x.
C3_ShiftInvariant ==
    (kernel = "softmax_kernel" /\ AllDone /\ "z_first" \in DOMAIN mem) =>
        \A o \in DOMAIN mem.z : QEq(mem.z[o], mem.z_first[o])

----------------------------------------------------------------------------
(* Puzzle 9: flashatt_kernel; q is [N0], k and v are [T], z is [N0] *)

fa_idx_i(p) == [a \in Lanes(cfg.B0) |-> p[1] * cfg.B0 + a]
fa_mask_i(p) == [a \in Lanes(cfg.B0) |-> fa_idx_i(p)[a] < cfg.N0]
fa_idx_j(j0) == [b \in Lanes(cfg.B1) |-> j0 + b]
fa_mask_j_unmasked(j0) == [b \in Lanes(cfg.B1) |-> TRUE]
fa_mask_j(j0) == [b \in Lanes(cfg.B1) |-> fa_idx_j(j0)[b] < cfg.T]

\* qk = q.broadcast_to(B0, B1) * k.broadcast_to(B0, B1)
fa_qk(q, k) == [ab \in Lanes(cfg.B0) \X Lanes(cfg.B1) |-> q[ab[1]] * k[ab[2]]]

\* one iteration of "for idx_j_start in tl.range(0, T, B1)"
flashatt_kernel_loop(p) ==
    /\ kernel = "flashatt_kernel" /\ pc[p] = "run" /\ loc[p].k < cfg.T
    /\ LET q == LoadTile("q", fa_idx_i(p), fa_mask_i(p))
           k == LoadTile("k", fa_idx_j(loc[p].k), fa_mask_j(loc[p].k))
           qk == fa_qk(q, k)
           last_maxs == loc[p].global_maxs
           chunk_max == RowMaxs(qk, cfg.B0, cfg.B1)
           global_maxs == [a \in Lanes(cfg.B0) |-> Max2(last_maxs[a], chunk_max[a])]
           factory == [a \in Lanes(cfg.B0) |->
                          Exp2Log2e(ExtSub(last_maxs[a], global_maxs[a]))]
           qk_exp == [ab \in Lanes(cfg.B0) \X Lanes(cfg.B1) |->
                         Exp2Log2e(ExtSub(qk[ab], global_maxs[ab[1]]))]
           local_sum == [a \in Lanes(cfg.B0) |->
                            PSumRange([b \in Lanes(cfg.B1) |-> qk_exp[<<a, b>>]],
                                      0, cfg.B1 - 1)]
           sums == [a \in Lanes(cfg.B0) |->
                       PAdd(PMul(loc[p].sums[a], factory[a]), local_sum[a])]
           v == LoadTile("v", fa_idx_j(loc[p].k), fa_mask_j(loc[p].k))
           local_result == [a \in Lanes(cfg.B0) |->
                               PSumRange([b \in Lanes(cfg.B1) |->
                                             PScale(qk_exp[<<a, b>>], v[b])],
                                         0, cfg.B1 - 1)]
           result == [a \in Lanes(cfg.B0) |->
                         PAdd(PMul(loc[p].result[a], factory[a]), local_result[a])]
       IN  loc' = [loc EXCEPT ![p] =
                      [k |-> loc[p].k + cfg.B1, j0 |-> loc[p].k, qk |-> qk,
                       global_maxs |-> global_maxs, sums |-> sums, result |-> result]]
    /\ loaded' = loaded \cup {"q", "k", "v"}
    /\ oob' = (oob \/ OutOfBounds("q", fa_idx_i(p), fa_mask_i(p))
                   \/ OutOfBounds("k", fa_idx_j(loc[p].k), fa_mask_j(loc[p].k))
                   \/ OutOfBounds("v", fa_idx_j(loc[p].k), fa_mask_j(loc[p].k)))
    /\ UNCHANGED <<kernel, cfg, grid, mem, pc, stores, aborted>>

\* result /= sums; tl.store(z_ptr + idx_i, result, mask=mask_i)
flashatt_kernel_store(p) ==
    /\ kernel = "flashatt_kernel" /\ pc[p] = "run" /\ loc[p].k >= cfg.T
    /\ LET result == [a \in Lanes(cfg.B0) |-> Quot(loc[p].result[a], loc[p].sums[a])]
       IN  mem' = [mem EXCEPT !.z = StoreTile("z", fa_idx_i(p), result, fa_mask_i(p))]
    /\ stores' = CountStores(fa_idx_i(p), fa_mask_i(p))
    /\ oob' = (oob \/ OutOfBounds("z", fa_idx_i(p), fa_mask_i(p)))
    /\ pc' = [pc EXCEPT ![p] = "done"]
    /\ UNCHANGED <<kernel, cfg, grid, loc, loaded, aborted>>

\* flashatt_kernel[(cdiv(N0, B0), 1, 1)](q, k, v, z, N0, T, B0, B1)
flashatt_launch(N0, T, B0, B1, q, k, v) ==
    Launch("flashatt_kernel", [N0 |-> N0, T |-> T, B0 |-> B0, B1 |-> B1],
           <<cdiv(N0, B0), 1, 1>>,
           [q |-> q, k |-> k, v |-> v, z |-> [o \in 0..(N0 - 1) |-> QZero]],
           [k |-> 0, j0 |-> 0, qk |-> <<>>,
            global_maxs |-> [a \in Lanes(B0) |-> NegInf],
            sums |-> [a \in Lanes(B0) |-> PZero],
            result |-> [a \in Lanes(B0) |-> PZero]])

InitFlash ==
    \E N0 \in Extents, T \in Extents, B0 \in BlockSizes, B1 \in BlockSizes,
       s \in Seeds, sv \in Seeds :
       /\ cdiv(N0, B0) <= MaxInstances
       /\ flashatt_launch(N0, T, B0, B1, Fill(s, N0), Fill(s + 1, T), Fill(sv, T))

NextFlash ==
    \/ \E p \in Instances : flashatt_kernel_loop(p)
    \/ \E p \in Instances : flashatt_kernel_store(p)

SpecFlash == InitFlash /\ [][NextFlash]_vars

\* flashatt_spec
flashatt_spec(q, k, v, N0, T) ==
    [i \in 0..(N0 - 1) |->
        LET x == [j \in 0..(T - 1) |-> q[i] * k[j]]
            x_max == MaxRange(x, 0, T - 1)
            x_exp == [j \in 0..(T - 1) |-> Exp2Log2e(x[j] - x_max)]
        IN  Quot(PSumRange([j \in 0..(T - 1) |-> PScale(x_exp[j], v[j])], 0, T - 1),
                 PSumRange(x_exp, 0, T - 1))]

\* C4: once every instance of flashatt_kernel has finished, with B1 <= T, every
\* z[i] is the softmax of q[i] * k[0..T-1] weighted by v, as flashatt_spec
\* computes it without tiling.
C4_FlashMatchesSpec ==
    (kernel = "flashatt_kernel" /\ AllDone /\ cfg.B1 <= cfg.T) =>
        \A i \in 0..(cfg.N0 - 1) :
            QEq(mem.z[i], flashatt_spec(mem.q, mem.k, mem.v, cfg.N0, cfg.T)[i])

\* C5: in every chunk the score qk at each key position j >= T is -infinity, and
\* the running sum of every in-bounds query row is the sum of e^(q[i] * k[j] -
\* running max) over the in-bounds keys j < T streamed so far only.
C5_MaskedScoresAreNegInf ==
    kernel = "flashatt_kernel" =>
        \A p \in Instances : loc[p].k > 0 =>
            /\ \A ab \in Lanes(cfg.B0) \X Lanes(cfg.B1) :
                  loc[p].j0 + ab[2] >= cfg.T => loc[p].qk[ab] = NegInf
            /\ \A a \in Lanes(cfg.B0) : fa_mask_i(p)[a] =>
                  loc[p].sums[a] =
                      PSumRange([j \in 0..(cfg.T - 1) |->
                                    IF j < loc[p].k
                                    THEN Exp2Log2e(mem.q[fa_idx_i(p)[a]] * mem.k[j]
                                                     - loc[p].global_maxs[a])
                                    ELSE PZero],
                                0, cfg.T - 1)

----------------------------------------------------------------------------
(* Puzzle 12: quant_dot_kernel.  scale is [N0, MID // GROUP], offset is        *)
(* [N0, MID // GROUP // FPINT] packed words, weight is [N0, MID // FPINT]      *)
(* packed words, activation is [MID, N1], z is [N0, N1].                       *)

FPINT == 8
GROUP == 8
\* BITS = 32 // FPINT
BITS == 32 \div FPINT

\* the low 31 bits of the two's-complement form of a signed 32-bit word, as a number
Low31(w) == IF w < 0 THEN (w + 2^30) + 2^30 ELSE w

\* bit i of the two's-complement form of w; positions from 31 up hold the sign
Bit(w, i) == IF i >= 31 THEN (IF w < 0 THEN 1 ELSE 0) ELSE (Low31(w) \div (2^i)) % 2

ShiftMask_sign_dropped(w, sh) == (Low31(w) \div (2^sh)) % (2^BITS)

\* (w >> sh) & ((1 << BITS) - 1) on a signed 32-bit word: the shift is arithmetic,
\* bit i of w >> sh is bit i + sh of w, and the mask keeps bits 0..BITS-1
ShiftMask(w, sh) == SumRange([i \in Lanes(BITS) |-> Bit(w, i + sh) * 2^i], 0, BITS - 1)

qd_idx_m(p) == [a \in Lanes(cfg.B0) |-> p[1] * cfg.B0 + a]
qd_idx_n(p) == [n \in Lanes(cfg.B1) |-> p[2] * cfg.B1 + n]
qd_msk_m(p) == [a \in Lanes(cfg.B0) |-> qd_idx_m(p)[a] < cfg.N0]
qd_msk_n(p) == [n \in Lanes(cfg.B1) |-> qd_idx_n(p)[n] < cfg.N1]

qd_asserts_without_block_check ==
    /\ cfg.MID % FPINT = 0
    /\ cfg.B_MID % FPINT = 0
    /\ cfg.MID % GROUP = 0
\* the tl.static_assert block: every condition holds
qd_static_asserts ==
    /\ cfg.MID % FPINT = 0
    /\ cfg.B_MID % FPINT = 0
    /\ cfg.MID % cfg.B_MID = 0
    /\ (cfg.MID \div FPINT) % (cfg.B_MID \div FPINT) = 0
    /\ cfg.MID % GROUP = 0

\* the static assertions, evaluated before the instance's first load
quant_dot_kernel_assert(p) ==
    /\ kernel = "quant_dot_kernel" /\ ~aborted /\ pc[p] = "run"
    /\ IF qd_static_asserts
       THEN pc' = [pc EXCEPT ![p] = "loop"] /\ UNCHANGED aborted
       ELSE aborted' = TRUE /\ UNCHANGED pc
    /\ UNCHANGED <<kernel, cfg, grid, mem, loc, stores, loaded, oob>>

qd_idx_scaled_k(k) == [w \in Lanes(cfg.B_MID \div FPINT) |-> (k \div FPINT) + w]
qd_mask_scaled_k(k) ==
    [w \in Lanes(cfg.B_MID \div FPINT) |-> qd_idx_scaled_k(k)[w] < (cfg.MID \div FPINT)]
qd_idx_quant_weight(p, k) ==
    [aw \in Lanes(cfg.B0) \X Lanes(cfg.B_MID \div FPINT) |->
        qd_idx_m(p)[aw[1]] * (cfg.MID \div FPINT) + qd_idx_scaled_k(k)[aw[2]]]
qd_msk_quant_weight(p, k) ==
    [aw \in Lanes(cfg.B0) \X Lanes(cfg.B_MID \div FPINT) |->
        qd_msk_m(p)[aw[1]] /\ qd_mask_scaled_k(k)[aw[2]]]

\* ((quant_weight.expand_dims(2) >> (tl.arange(0, FPINT) * BITS)) & 0xF)
\*   .reshape(B0, B_MID): column c holds lane c % FPINT of word c // FPINT
qd_unpack_weight(words) ==
    [ac \in Lanes(cfg.B0) \X Lanes(cfg.B_MID) |->
        ShiftMask(words[<<ac[1], ac[2] \div FPINT>>], (ac[2] % FPINT) * BITS)]

qd_idx_k(k) == [c \in Lanes(cfg.B_MID) |-> k + c]
qd_idx_scale(k) == [c \in Lanes(cfg.B_MID) |-> qd_idx_k(k)[c] \div GROUP]
qd_msk_scale(k) == [c \in Lanes(cfg.B_MID) |-> qd_idx_scale(k)[c] < (cfg.MID \div GROUP)]
qd_idx_scale_factory(p, k) ==
    [ac \in Lanes(cfg.B0) \X Lanes(cfg.B_MID) |->
        qd_idx_m(p)[ac[1]] * (cfg.MID \div GROUP) + qd_idx_scale(k)[ac[2]]]
qd_msk_scale_factory(p, k) ==
    [ac \in Lanes(cfg.B0) \X Lanes(cfg.B_MID) |->
        qd_msk_m(p)[ac[1]] /\ qd_msk_scale(k)[ac[2]]]

qd_idx_offset(k) == [c \in Lanes(cfg.B_MID) |-> (qd_idx_k(k)[c] \div GROUP) \div FPINT]
\* msk_offset = idx_offset < (B_MID // GROUP // FPINT)
qd_msk_offset(k) ==
    [c \in Lanes(cfg.B_MID) |-> qd_idx_offset(k)[c] < ((cfg.B_MID \div GROUP) \div FPINT)]
qd_idx_offset2(p, k) ==
    [ac \in Lanes(cfg.B0) \X Lanes(cfg.B_MID) |->
        qd_idx_m(p)[ac[1]] * ((cfg.MID \div GROUP) \div FPINT) + qd_idx_offset(k)[ac[2]]]
qd_msk_offset2(p, k) ==
    [ac \in Lanes(cfg.B0) \X Lanes(cfg.B_MID) |->
        qd_msk_m(p)[ac[1]] /\ qd_msk_offset(k)[ac[2]]]

\* (tl.arange(0, FPINT) * BITS).expand_dims(1).broadcast_to(FPINT, GROUP).reshape(B_MID)
\* is defined only when FPINT * GROUP = B_MID
qd_offset_shifts_defined == FPINT * GROUP = cfg.B_MID
qd_offset_shifts == [c \in Lanes(cfg.B_MID) |-> (c \div GROUP) * BITS]

qd_idx_act(p, k) ==
    [cn \in Lanes(cfg.B_MID) \X Lanes(cfg.B1) |->
        qd_idx_k(k)[cn[1]] * cfg.N1 + qd_idx_n(p)[cn[2]]]
qd_msk_act(p, k) ==
    [cn \in Lanes(cfg.B_MID) \X Lanes(cfg.B1) |->
        qd_idx_k(k)[cn[1]] < cfg.MID /\ qd_msk_n(p)[cn[2]]]

\* tl.dot(A, B) of a [M, K] tile with a [K, N] tile
tl_dot2(A, B, M, K, N) ==
    [t \in Lanes(M) \X Lanes(N) |->
        SumRange([l \in Lanes(K) |-> A[<<t[1], l>>] * B[<<l, t[2]>>]], 0, K - 1)]

\* one iteration of "for k in tl.range(0, MID, B_MID)"
quant_dot_kernel_loop(p) ==
    /\ kernel = "quant_dot_kernel" /\ ~aborted /\ pc[p] = "loop" /\ loc[p].k < cfg.MID
    /\ LET k == loc[p].k
           words == LoadTile("weight", qd_idx_quant_weight(p, k), qd_msk_quant_weight(p, k))
           quant_weight == qd_unpack_weight(words)
           scale == LoadTile("scale", qd_idx_scale_factory(p, k), qd_msk_scale_factory(p, k))
           offset_words == LoadTile("offset", qd_idx_offset2(p, k), qd_msk_offset2(p, k))
           offset == [ac \in Lanes(cfg.B0) \X Lanes(cfg.B_MID) |->
                         ShiftMask(offset_words[ac], qd_offset_shifts[ac[2]])]
           dequant_weight == [ac \in Lanes(cfg.B0) \X Lanes(cfg.B_MID) |->
                                 scale[ac] * (quant_weight[ac] - offset[ac])]
           act == LoadTile("activation", qd_idx_act(p, k), qd_msk_act(p, k))
           d == tl_dot2(dequant_weight, act, cfg.B0, cfg.B_MID, cfg.B1)
       IN  IF qd_offset_shifts_defined
           THEN /\ loc' = [loc EXCEPT ![p] =
                              [k |-> k + cfg.B_MID,
                               tile |-> [t \in DOMAIN d |-> loc[p].tile[t] + d[t]]]]
                /\ loaded' = loaded \cup {"weight", "scale", "offset", "activation"}
                /\ oob' = (oob
                    \/ OutOfBounds("weight", qd_idx_quant_weight(p, k), qd_msk_quant_weight(p, k))
                    \/ OutOfBounds("scale", qd_idx_scale_factory(p, k), qd_msk_scale_factory(p, k))
                    \/ OutOfBounds("offset", qd_idx_offset2(p, k), qd_msk_offset2(p, k))
                    \/ OutOfBounds("activation", qd_idx_act(p, k), qd_msk_act(p, k)))
                /\ UNCHANGED aborted
           ELSE /\ aborted' = TRUE
                /\ loaded' = loaded \cup {"weight", "scale", "offset"}
                /\ oob' = (oob
                    \/ OutOfBounds("weight", qd_idx_quant_weight(p, k), qd_msk_quant_weight(p, k))
                    \/ OutOfBounds("scale", qd_idx_scale_factory(p, k), qd_msk_scale_factory(p, k))
                    \/ OutOfBounds("offset", qd_idx_offset2(p, k), qd_msk_offset2(p, k)))
                /\ UNCHANGED loc
    /\ UNCHANGED <<kernel, cfg, grid, mem, pc, stores>>

qd_idx_out(p) ==
    [t \in Lanes(cfg.B0) \X Lanes(cfg.B1) |->
        qd_idx_m(p)[t[1]] * cfg.N1 + qd_idx_n(p)[t[2]]]
qd_msk_out(p) ==
    [t \in Lanes(cfg.B0) \X Lanes(cfg.B1) |-> qd_msk_m(p)[t[1]] /\ qd_msk_n(p)[t[2]]]

\* tl.store(z_ptr + idx_out, tile, mask=msk_out) after the loop
quant_dot_kernel_store(p) ==
    /\ kernel = "quant_dot_kernel" /\ ~aborted /\ pc[p] = "loop" /\ loc[p].k >= cfg.MID
    /\ mem' = [mem EXCEPT !.z = StoreTile("z", qd_idx_out(p), loc[p].tile, qd_msk_out(p))]
    /\ stores' = CountStores(qd_idx_out(p), qd_msk_out(p))
    /\ oob' = (oob \/ OutOfBounds("z", qd_idx_out(p), qd_msk_out(p)))
    /\ pc' = [pc EXCEPT ![p] = "done"]
    /\ UNCHANGED <<kernel, cfg, grid, loc, loaded, aborted>>

\* the signed 32-bit word whose FPINT lanes hold the BITS-bit values nib[0..FPINT-1]
PackWord(nib) ==
    SumRange([lane \in Lanes(FPINT) |->
                 IF lane = FPINT - 1
                 THEN (IF nib[lane] >= 2^(BITS - 1) THEN nib[lane] - 2^BITS ELSE nib[lane])
                      * 2^(BITS * lane)
                 ELSE nib[lane] * 2^(BITS * lane)],
             0, FPINT - 1)

\* a deterministic family of packed 32-bit words
WordFill(seed, n) ==
    [o \in 0..(n - 1) |->
        PackWord([lane \in Lanes(FPINT) |-> (seed * 7 + o * 5 + lane * 3 + o * lane + 9) % (2^BITS)])]

\* quant_dot_kernel[(cdiv(N0, B0), cdiv(N1, B1), 1)](scale, offset, weight, activation, z, ...)
quant_dot_launch(N0, N1, MID, B0, B1, B_MID, s) ==
    Launch("quant_dot_kernel",
           [N0 |-> N0, N1 |-> N1, MID |-> MID, B0 |-> B0, B1 |-> B1, B_MID |-> B_MID],
           <<cdiv(N0, B0), cdiv(N1, B1), 1>>,
           [scale |-> Fill(s, N0 * (MID \div GROUP)),
            offset |-> WordFill(s, N0 * ((MID \div GROUP) \div FPINT)),
            weight |-> WordFill(s + 1, N0 * (MID \div FPINT)),
            activation |-> Fill(s + 1, MID * N1),
            z |-> Zeros(N0 * N1)],
           [k |-> 0, tile |-> [t \in Lanes(B0) \X Lanes(B1) |-> 0]])

\* the contraction extent is up to QuantMaxChunks blocks of FPINT * GROUP
QuantMaxChunks == 2
\* N0 and N1 of quant_dot_kernel range over 1..QuantMaxExtent
QuantMaxExtent == 2

\* contraction extents: multiples of FPINT * GROUP, and small ones that meet or
\* violate the divisibility preconditions
QuantMIDs == {FPINT * GROUP * c : c \in 1..QuantMaxChunks} \cup {4, 8, 12, 16}
QuantBMIDs == {4, 8, 16, 32, 64, 128}

\* the seeds of the inputs of quant_dot_kernel: the first and the last of Seeds
QuantSeeds == {0, MaxSeed}

InitQuant ==
    \E N0 \in 1..QuantMaxExtent, N1 \in 1..QuantMaxExtent, MID \in QuantMIDs,
       B0 \in BlockSizes, B1 \in BlockSizes, B_MID \in QuantBMIDs, s \in QuantSeeds :
       /\ cdiv(N0, B0) * cdiv(N1, B1) <= MaxInstances
       /\ quant_dot_launch(N0, N1, MID, B0, B1, B_MID, s)

NextQuant ==
    \/ \E p \in Instances : quant_dot_kernel_assert(p)
    \/ \E p \in Instances : quant_dot_kernel_loop(p)
    \/ \E p \in Instances : quant_dot_kernel_store(p)

SpecQuant == InitQuant /\ [][NextQuant]_vars

\* quant_dot_spec for a contraction extent MID: z[m,n] is the sum over l of
\* scale[m, l // GROUP] * (w(m,l) - o(m,l)) * activation[l, n]
quant_dot_spec(scale, offset, weight, activation, N0, N1, MID) ==
    [o \in 0..(N0 * N1 - 1) |->
        LET m == o \div N1
            n == o % N1
        IN  SumRange(
              [l \in 0..(MID - 1) |->
                  scale[m * (MID \div GROUP) + (l \div GROUP)]
                  * (ShiftMask(weight[m * (MID \div FPINT) + (l \div FPINT)],
                               (l % FPINT) * BITS)
                     - ShiftMask(offset[m * ((MID \div GROUP) \div FPINT)
                                          + (l \div (GROUP * FPINT))],
                                 ((l \div GROUP) % FPINT) * BITS))
                  * activation[l * N1 + n]],
              0, MID - 1)]

\* the preconditions stated for quant_dot_kernel
qd_preconditions ==
    /\ cfg.B_MID % FPINT = 0
    /\ cfg.MID % FPINT = 0
    /\ cfg.MID % GROUP = 0
    /\ cfg.MID % cfg.B_MID = 0

\* C6: for every configuration that satisfies the preconditions, once every
\* instance of quant_dot_kernel has finished z equals quant_dot_spec of the
\* unpacked operands.
C6_QuantMatchesSpec ==
    (kernel = "quant_dot_kernel" /\ qd_preconditions /\ AllDone) =>
        mem.z = quant_dot_spec(mem.scale, mem.offset, mem.weight, mem.activation,
                               cfg.N0, cfg.N1, cfg.MID)

\* C7: when a precondition is violated no instance of quant_dot_kernel gets past
\* its static assertions: nothing is loaded, nothing is stored, z is unchanged,
\* and every step an instance takes aborts the run.
C7_ConfigErrorBeforeAnyAccess ==
    /\ []((kernel = "quant_dot_kernel" /\ ~qd_preconditions) =>
            /\ \A p \in Instances : pc[p] = "run"
            /\ loaded = {}
            /\ \A o \in DOMAIN stores : stores[o] = 0
            /\ mem.z = Zeros(cfg.N0 * cfg.N1))
    /\ [][(kernel = "quant_dot_kernel" /\ ~qd_preconditions) => aborted']_vars

\* a run aborted by a violated precondition, the contraction block not dividing MID
C7_Witness ==
    /\ kernel = "quant_dot_kernel" /\ aborted
    /\ cfg.MID % FPINT = 0 /\ cfg.B_MID % FPINT = 0 /\ cfg.MID % cfg.B_MID # 0

----------------------------------------------------------------------------
(* Puzzle 10: conv2d_kernel.  x and z are [N0, H, W], k is [KH, KW].           *)

conv_idx_kernel ==
    [ab \in Lanes(cfg.KH) \X Lanes(cfg.KW) |-> cfg.KW * ab[1] + ab[2]]

\* block_id_i * B0 + tl.arange(0, B0)
conv_batch(p) == [i \in Lanes(cfg.B0) |-> p[1] * cfg.B0 + i]
conv_offset_b(p) == [i \in Lanes(cfg.B0) |-> conv_batch(p)[i] * cfg.H * cfg.W]
conv_mask_b(p) == [i \in Lanes(cfg.B0) |-> conv_batch(p)[i] < cfg.N0]
conv_offset_h(h) == [a \in Lanes(cfg.KH) |-> (h + a) * cfg.W]
conv_mask_h(h) == [a \in Lanes(cfg.KH) |-> (h + a) < cfg.H]
conv_offset_w(w) == [b \in Lanes(cfg.KW) |-> w + b]
conv_mask_w_unmasked(w) == [b \in Lanes(cfg.KW) |-> TRUE]
conv_mask_w(w) == [b \in Lanes(cfg.KW) |-> (w + b) < cfg.W]
conv_offset_tile(p, h, w) ==
    [t \in Lanes(cfg.B0) \X Lanes(cfg.KH) \X Lanes(cfg.KW) |->
        conv_offset_b(p)[t[1]] + conv_offset_h(h)[t[2]] + conv_offset_w(w)[t[3]]]
conv_mask_tile(p, h, w) ==
    [t \in Lanes(cfg.B0) \X Lanes(cfg.KH) \X Lanes(cfg.KW) |->
        conv_mask_b(p)[t[1]] /\ conv_mask_h(h)[t[2]] /\ conv_mask_w(w)[t[3]]]
conv_out_idx(p, h, w) ==
    [i \in Lanes(cfg.B0) |-> conv_batch(p)[i] * cfg.H * cfg.W + h * cfg.W + w]
conv_out_mask_none(p) == [i \in Lanes(cfg.B0) |-> FALSE]
conv_out_mask(p) == [i \in Lanes(cfg.B0) |-> conv_batch(p)[i] < cfg.N0]

\* kernel = tl.load(k_ptr + idx_kernel)
conv2d_kernel_load_k(p) ==
    /\ kernel = "conv2d_kernel" /\ pc[p] = "run"
    /\ loc' = [loc EXCEPT ![p].kern =
                  LoadTile("k", conv_idx_kernel, [t \in DOMAIN conv_idx_kernel |-> TRUE])]
    /\ loaded' = loaded \cup {"k"}
    /\ oob' = (oob \/ OutOfBounds("k", conv_idx_kernel,
                                  [t \in DOMAIN conv_idx_kernel |-> TRUE]))
    /\ pc' = [pc EXCEPT ![p] = "loop"]
    /\ UNCHANGED <<kernel, cfg, grid, mem, stores, aborted>>

\* (inp * kernel).sum(2).sum(1)
conv_window_sum(inp, kern) ==
    [i \in Lanes(cfg.B0) |->
        SumRange([a \in Lanes(cfg.KH) |->
                     SumRange([b \in Lanes(cfg.KW) |-> inp[<<i, a, b>>] * kern[<<a, b>>]],
                              0, cfg.KW - 1)],
                 0, cfg.KH - 1)]

\* the body of the two nested loops at (h, w): one load of the window, one store
conv2d_kernel_iter(p) ==
    /\ kernel = "conv2d_kernel" /\ pc[p] = "loop"
    /\ LET h == loc[p].h
           w == loc[p].w
           inp == LoadTile("x", conv_offset_tile(p, h, w), conv_mask_tile(p, h, w))
           conv == conv_window_sum(inp, loc[p].kern)
           last == (w + 1 >= cfg.W) /\ (h + 1 >= cfg.H)
       IN  /\ mem' = [mem EXCEPT !.z =
                         StoreTile("z", conv_out_idx(p, h, w), conv, conv_out_mask(p))]
           /\ stores' = CountStores(conv_out_idx(p, h, w), conv_out_mask(p))
           /\ loaded' = loaded \cup {"x"}
           /\ oob' = (oob
                \/ OutOfBounds("x", conv_offset_tile(p, h, w), conv_mask_tile(p, h, w))
                \/ OutOfBounds("z", conv_out_idx(p, h, w), conv_out_mask(p)))
           /\ loc' = [loc EXCEPT ![p].h = IF w + 1 >= cfg.W THEN h + 1 ELSE h,
                                 ![p].w = IF w + 1 >= cfg.W THEN 0 ELSE w + 1]
           /\ pc' = [pc EXCEPT ![p] = IF last THEN "done" ELSE "loop"]
    /\ UNCHANGED <<kernel, cfg, grid, aborted>>

\* conv2d_kernel[(cdiv(N0, B0), 1, 1)](x, k, z, N0, H, W, KH, KW, B0)
conv2d_launch(N0, H, W, KH, KW, B0, x, k) ==
    Launch("conv2d_kernel",
           [N0 |-> N0, H |-> H, W |-> W, KH |-> KH, KW |-> KW, B0 |-> B0],
           <<cdiv(N0, B0), 1, 1>>,
           [x |-> x, k |-> k, z |-> Zeros(N0 * H * W)],
           [h |-> 0, w |-> 0, kern |-> <<>>])

\* image height and width of conv2d_kernel range over 1..ConvMaxImage
ConvMaxImage == 2
ConvImage == 1..ConvMaxImage

InitConv ==
    \E N0 \in Extents, H \in ConvImage, W \in ConvImage, KH \in BlockSizes,
       KW \in BlockSizes, B0 \in BlockSizes, s \in Seeds :
       /\ cdiv(N0, B0) <= MaxInstances
       /\ conv2d_launch(N0, H, W, KH, KW, B0, Fill(s, N0 * H * W), Fill(s + 1, KH * KW))

NextConv ==
    \/ \E p \in Instances : conv2d_kernel_load_k(p)
    \/ \E p \in Instances : conv2d_kernel_iter(p)

SpecConv == InitConv /\ [][NextConv]_vars

----------------------------------------------------------------------------
(* The ten grid kernels under every interleaving of their instances' steps.    *)
(* A launch is run to completion twice on the same inputs; the two runs may    *)
(* interleave their instances differently, and the second keeps the output of   *)
(* the first in z_first.                                                        *)

GridKernels ==
    {"add_mask2_kernel", "add_vec_block_kernel", "mul_relu_block_kernel",
     "mul_relu_block_back_kernel", "sum_kernel", "softmax_kernel", "flashatt_kernel",
     "conv2d_kernel", "dot_kernel", "quant_dot_kernel"}

\* the local state of an instance at its first step
FirstLocals ==
    CASE kernel = "add_mask2_kernel" -> [x |-> <<>>]
      [] kernel \in {"add_vec_block_kernel", "mul_relu_block_kernel",
                     "mul_relu_block_back_kernel"} -> [x |-> <<>>, y |-> <<>>, dz |-> <<>>]
      [] kernel = "sum_kernel" -> [k |-> 0, sums |-> [a \in Lanes(cfg.B0) |-> 0]]
      [] kernel = "softmax_kernel" ->
            [k |-> 0, global_maxs |-> [a \in Lanes(cfg.B0) |-> NegInf],
             sums |-> [a \in Lanes(cfg.B0) |-> PZero]]
      [] kernel = "flashatt_kernel" ->
            [k |-> 0, j0 |-> 0, qk |-> <<>>,
             global_maxs |-> [a \in Lanes(cfg.B0) |-> NegInf],
             sums |-> [a \in Lanes(cfg.B0) |-> PZero],
             result |-> [a \in Lanes(cfg.B0) |-> PZero]]
      [] kernel = "conv2d_kernel" -> [h |-> 0, w |-> 0, kern |-> <<>>]
      [] kernel = "dot_kernel" ->
            [k |-> 0,
             tile |-> [t \in Lanes(cfg.B2) \X Lanes(cfg.B1) \X Lanes(cfg.B0) |-> 0]]
      [] kernel = "quant_dot_kernel" ->
            [k |-> 0, tile |-> [t \in Lanes(cfg.B0) \X Lanes(cfg.B1) |-> 0]]

\* the output buffer as allocated before a launch
FreshOutput ==
    IF kernel \in {"softmax_kernel", "flashatt_kernel"}
    THEN [o \in DOMAIN mem.z |-> QZero]
    ELSE [o \in DOMAIN mem.z |-> 0]

\* the same launch once more on the same inputs and a fresh output buffer
grid_relaunch ==
    /\ kernel \in GridKernels /\ AllDone /\ "z_first" \notin DOMAIN mem
    /\ mem' = [f \in DOMAIN mem \cup {"z_first"} |->
                  IF f = "z_first" THEN mem.z
                  ELSE IF f = "z" THEN FreshOutput ELSE mem[f]]
    /\ pc' = [p \in Instances |-> "run"]
    /\ loc' = [p \in Instances |-> FirstLocals]
    /\ stores' = [o \in DOMAIN stores |-> 0]
    /\ loaded' = {}
    /\ UNCHANGED <<kernel, cfg, grid, oob, aborted>>

\* the seed of the inputs of the grid launches
GridSeed == 1
\* extents of the grid launches range over 1..GridMaxExtent
GridMaxExtent == 2
GridExtents == 1..GridMaxExtent

InitGrid ==
    \/ \E N0 \in Extents, B0 \in BlockSizes :
          /\ cdiv(N0, B0) <= MaxInstances
          /\ add_mask2_launch(N0, B0, Fill(GridSeed, N0))
    \/ \E N0 \in GridExtents, N1 \in GridExtents, B0 \in BlockSizes, B1 \in BlockSizes,
          name \in {"add_vec_block_kernel", "mul_relu_block_kernel"} :
          /\ cdiv(N0, B0) * cdiv(N1, B1) <= MaxInstances
          /\ outer_launch(name, N0, N1, B0, B1,
                          [x |-> Fill(GridSeed, N0), y |-> Fill(GridSeed + 1, N1),
                           z |-> Zeros(N1 * N0)])
    \/ \E N0 \in GridExtents, N1 \in GridExtents, B0 \in BlockSizes, B1 \in BlockSizes :
          /\ cdiv(N0, B0) * cdiv(N1, B1) <= MaxInstances
          /\ outer_launch("mul_relu_block_back_kernel", N0, N1, B0, B1,
                          [x |-> Fill(GridSeed, N1 * N0), y |-> Fill(GridSeed + 1, N1),
                           dz |-> Fill(GridSeed + 2, N1 * N0), z |-> Zeros(N1 * N0)])
    \/ \E N0 \in Extents, T \in GridExtents, B0 \in BlockSizes, B1 \in BlockSizes :
          /\ cdiv(N0, B0) <= MaxInstances
          /\ sum_launch(N0, T, B0, B1, Fill(GridSeed, N0 * T))
    \/ \E N0 \in Extents, T \in GridExtents, B0 \in BlockSizes, B1 \in BlockSizes :
          /\ cdiv(N0, B0) <= MaxInstances
          /\ softmax_launch(N0, T, B0, B1,
                            [x |-> Fill(GridSeed, N0 * T),
                             z |-> [o \in 0..(N0 * T - 1) |-> QZero]])
    \/ \E N0 \in Extents, T \in GridExtents, B0 \in BlockSizes, B1 \in BlockSizes :
          /\ cdiv(N0, B0) <= MaxInstances
          /\ flashatt_launch(N0, T, B0, B1, Fill(GridSeed, N0), Fill(GridSeed + 1, T),
                             Fill(GridSeed + 2, T))
    \/ \E N0 \in Extents, H \in GridExtents, KH \in BlockSizes, B0 \in BlockSizes :
          /\ cdiv(N0, B0) <= MaxInstances
          /\ conv2d_launch(N0, H, H, KH, KH, B0, Fill(GridSeed, N0 * H * H),
                           Fill(GridSeed + 1, KH * KH))
    \/ \E N0 \in GridExtents, N1 \in GridExtents, N2 \in GridExtents,
          B0 \in BlockSizes, B1 \in BlockSizes, B2 \in BlockSizes, B_MID \in BlockSizes :
          /\ cdiv(N0, B0) * cdiv(N1, B1) * cdiv(N2, B2) <= MaxInstances
          /\ dot_launch(N0, N1, N2, GridMaxExtent, B0, B1, B2, B_MID,
                        Fill(GridSeed, N2 * N1 * GridMaxExtent),
                        Fill(GridSeed + 1, N2 * GridMaxExtent * N0))
    \/ \E N0 \in GridExtents, N1 \in GridExtents, B0 \in BlockSizes, B1 \in BlockSizes :
          /\ cdiv(N0, B0) * cdiv(N1, B1) <= MaxInstances
          /\ quant_dot_launch(N0, N1, FPINT * GROUP, B0, B1, FPINT * GROUP, GridSeed)

NextGrid ==
    \/ \E p \in Instances : add_mask2_kernel_load(p)
    \/ \E p \in Instances : add_mask2_kernel_store(p)
    \/ \E p \in Instances : outer_load_x(p)
    \/ \E p \in Instances : outer_load_y(p)
    \/ \E p \in Instances : add_vec_block_kernel_store(p)
    \/ \E p \in Instances : mul_relu_block_kernel_store(p)
    \/ \E p \in Instances : mul_relu_block_back_kernel_load_x(p)
    \/ \E p \in Instances : mul_relu_block_back_kernel_load_y(p)
    \/ \E p \in Instances : mul_relu_block_back_kernel_load_dz(p)
    \/ \E p \in Instances : mul_relu_block_back_kernel_store(p)
    \/ \E p \in Instances : sum_kernel_loop(p)
    \/ \E p \in Instances : sum_kernel_store(p)
    \/ \E p \in Instances : softmax_kernel_loop1(p)
    \/ \E p \in Instances : softmax_kernel_loop2(p)
    \/ \E p \in Instances : flashatt_kernel_loop(p)
    \/ \E p \in Instances : flashatt_kernel_store(p)
    \/ \E p \in Instances : conv2d_kernel_load_k(p)
    \/ \E p \in Instances : conv2d_kernel_iter(p)
    \/ \E p \in Instances : dot_kernel_loop(p)
    \/ \E p \in Instances : dot_kernel_store(p)
    \/ \E p \in Instances : quant_dot_kernel_assert(p)
    \/ \E p \in Instances : quant_dot_kernel_loop(p)
    \/ \E p \in Instances : quant_dot_kernel_store(p)
    \/ grid_relaunch

SpecGrid == InitGrid /\ [][NextGrid]_vars

\* C10: in every grid kernel no output offset is stored more than once, so the
\* write sets of distinct instances are disjoint; no instance loads from the
\* output buffer; and a second run of the launch, whatever the interleaving of
\* either run, ends with the output buffer the first run ended with.
C10_DisjointWritesDeterministicOutput ==
    kernel \in GridKernels =>
        /\ \A o \in DOMAIN stores : stores[o] <= 1
        /\ "z" \notin loaded
        /\ ("z_first" \in DOMAIN mem /\ AllDone) => mem.z = mem.z_first

\* a second run of a launch of two instances has finished and stored every offset
C10_Witness ==
    /\ kernel \in GridKernels /\ NumInstances(grid) >= 2
    /\ "z_first" \in DOMAIN mem /\ AllDone
    /\ \A o \in DOMAIN stores : stores[o] = 1

----------------------------------------------------------------------------
(* The introduction's demos of a masked store and of a grid of blocks, and     *)
(* the block geometry of add_mask2_kernel.                                     *)

Demo3Lanes == 8
Demo3Limit == 5
Demo3Value == 10
Demo3Rows == 4
Demo3Cols == 3

\* range = tl.arange(0, 8)
demo3_range == [l \in Lanes(Demo3Lanes) |-> l]
\* range < 5
demo3_mask == [l \in Lanes(Demo3Lanes) |-> demo3_range[l] < Demo3Limit]

\* tl.store(z_ptr + range, 10, range < 5)
demo3_store(p) ==
    /\ kernel = "demo3" /\ pc[p] = "run"
    /\ mem' = [mem EXCEPT !.z = StoreTile("z", demo3_range,
                                          [l \in Lanes(Demo3Lanes) |-> Demo3Value],
                                          demo3_mask)]
    /\ stores' = CountStores(demo3_range, demo3_mask)
    /\ oob' = (oob \/ OutOfBounds("z", demo3_range, demo3_mask))
    /\ pc' = [pc EXCEPT ![p] = "done"]
    /\ UNCHANGED <<kernel, cfg, grid, loc, loaded, aborted>>

\* demo3[(1, 1, 1)](z)
demo3_launch(input, n, z) ==
    Launch("demo3", [input |-> input, n |-> n], <<1, 1, 1>>, [z |-> z], <<>>)

Demo4Lanes == 8
Demo4Limit == 20
Demo4Blocks == 3
Demo4Size == 32

\* range = tl.arange(0, 8) + pid * 8
demo4_range(p) == [l \in Lanes(Demo4Lanes) |-> l + p[1] * Demo4Lanes]
\* range < 20
demo4_mask(p) == [l \in Lanes(Demo4Lanes) |-> demo4_range(p)[l] < Demo4Limit]

\* x = tl.load(x_ptr + range, range < 20)
demo4_load(p) ==
    /\ kernel = "demo4" /\ pc[p] = "run"
    /\ loc' = [loc EXCEPT ![p] = [x |-> LoadTile("x", demo4_range(p), demo4_mask(p))]]
    /\ loaded' = loaded \cup {"x"}
    /\ oob' = (oob \/ OutOfBounds("x", demo4_range(p), demo4_mask(p)))
    /\ pc' = [pc EXCEPT ![p] = "done"]
    /\ UNCHANGED <<kernel, cfg, grid, mem, stores, aborted>>

\* demo4[(3, 1, 1)](torch.ones(2, 4, 4))
demo4_launch ==
    Launch("demo4", [n |-> Demo4Size], <<Demo4Blocks, 1, 1>>,
           [x |-> Ones(Demo4Size), z |-> Zeros(0)], [x |-> <<>>])

\* the Puzzle 2 test: 200 elements in blocks of 32
Puzzle2N0 == 200
Puzzle2B0 == 32

\* block sizes of the geometry launches: every size from 1, powers of two or
\* not; a launch whose block size is not a power of two raises at tl.arange
GeometryBlocks == 1..(MaxExtent + 1)
\* buffers handed to demo3: the 4 x 3 one of run_demo3 and others at least as
\* long as the stored range
Demo3Sizes == Demo3Lanes..(Demo3Rows * Demo3Cols + MaxExtent)

InitDemo ==
    \/ demo3_launch("ones", Demo3Rows * Demo3Cols, Ones(Demo3Rows * Demo3Cols))
    \/ \E n \in Demo3Sizes, s \in Seeds : demo3_launch("fill", n, Fill(s, n))
    \/ demo4_launch
    \/ \E N0 \in 1..(2 * MaxExtent), B0 \in GeometryBlocks, s \in Seeds :
          add_mask2_launch(N0, B0, Fill(s, N0))
    \/ add_mask2_launch(Puzzle2N0, Puzzle2B0, Ones(Puzzle2N0))

NextDemo ==
    \/ \E p \in Instances : demo3_store(p)
    \/ \E p \in Instances : demo4_load(p)
    \/ \E p \in Instances : add_mask2_kernel_arange_error(p)
    \/ \E p \in Instances : add_mask2_kernel_load(p)
    \/ \E p \in Instances : add_mask2_kernel_store(p)

SpecDemo == InitDemo /\ [][NextDemo]_vars

\* C11: a masked store changes the buffer only at offsets addressed by a
\* mask-true lane and leaves every other position as it was; demo3 writes 10 at
\* exactly the offsets below 5, and on the 4 x 3 buffer of ones the first five
\* flattened elements end as 10 and the remaining seven as 1.
C11_MaskedStoreFrame ==
    /\ [][/\ \A o \in DOMAIN mem.z : stores'[o] = stores[o] => mem'.z[o] = mem.z[o]
          /\ kernel = "demo3" =>
                \A o \in DOMAIN mem.z :
                   mem'.z[o] = IF o < Demo3Limit THEN Demo3Value ELSE mem.z[o]]_vars
    /\ []((kernel = "demo3" /\ AllDone /\ cfg.input = "ones") =>
             mem.z = [o \in 0..(Demo3Rows * Demo3Cols - 1) |->
                         IF o < Demo3Limit THEN Demo3Value ELSE 1])

\* demo3 has stored into the 4 x 3 buffer, whose last seven elements are still 1
C11_Witness ==
    /\ kernel = "demo3" /\ AllDone /\ cfg.input = "ones"
    /\ \A o \in Demo3Limit..(Demo3Rows * Demo3Cols - 1) : mem.z[o] = 1
    /\ \A o \in 0..(Demo3Limit - 1) : mem.z[o] = Demo3Value

\* C12: with ceil(N/B) instances of coordinates block_id * B + [0, B) and mask
\* coordinate < N, every index of [0, N) is mask-true in the instance i div B at
\* lane i mod B and in no other, and no mask-true coordinate is >= N; demo4's
\* blocks over 20 elements hold 8, 8 and 4 valid positions; a finished
\* add_mask2_kernel has written each z[i] exactly once.  The coordinates exist
\* for the block sizes tl.arange accepts, the powers of two.
C12_MaskPartition ==
    /\ (kernel = "add_mask2_kernel" /\ arange_defined(cfg.B0)) =>
          /\ grid[1] = cdiv(cfg.N0, cfg.B0)
          /\ \A i \in 0..(cfg.N0 - 1) :
                /\ <<i \div cfg.B0, 0, 0>> \in Instances
                /\ add2_msk(<<i \div cfg.B0, 0, 0>>)[i % cfg.B0]
                /\ add2_idx(<<i \div cfg.B0, 0, 0>>)[i % cfg.B0] = i
          /\ \A p \in Instances : \A a \in Lanes(cfg.B0) :
                add2_msk(p)[a] =>
                   /\ add2_idx(p)[a] \in 0..(cfg.N0 - 1)
                   /\ add2_idx(p)[a] \div cfg.B0 = p[1]
                   /\ add2_idx(p)[a] % cfg.B0 = a
          /\ AllDone => \A o \in DOMAIN stores : stores[o] = 1
    /\ kernel = "demo4" =>
          /\ \A i \in 0..(Demo4Limit - 1) :
                Cardinality({pl \in Instances \X Lanes(Demo4Lanes) :
                                demo4_mask(pl[1])[pl[2]] /\ demo4_range(pl[1])[pl[2]] = i}) = 1
          /\ \A p \in Instances : \A l \in Lanes(Demo4Lanes) :
                demo4_mask(p)[l] => demo4_range(p)[l] < Demo4Limit
          /\ \A p \in Instances :
                Cardinality({l \in Lanes(Demo4Lanes) : demo4_mask(p)[l]}) =
                   IF (p[1] + 1) * Demo4Lanes <= Demo4Limit THEN Demo4Lanes
                   ELSE Demo4Limit - p[1] * Demo4Lanes

\* the Puzzle 2 launch, 200 elements in 7 blocks of 32, has finished
C12_Witness ==
    /\ kernel = "add_mask2_kernel" /\ AllDone
    /\ cfg.N0 = Puzzle2N0 /\ cfg.B0 = Puzzle2B0 /\ cfg.N0 % cfg.B0 # 0
    /\ \A o \in DOMAIN stores : stores[o] = 1

----------------------------------------------------------------------------
(* run_puzzles(args, puzzles): the tests of the selected puzzles in order.     *)
(* The single control flow is instance <<0, 0, 0>>; loc holds the number of    *)
(* the "if n in puzzles" block it stands before and the last value of ok; mem   *)
(* holds what the run has done: the puzzles tested, in order, and whether       *)
(* "All tests passed!" was printed.                                             *)

\* the blocks "if 1 in puzzles" ... "if 12 in puzzles"
NumPuzzles == 12

Runner == <<0, 0, 0>>

run_puzzles_keeps_going(ok) == FALSE
\* if not ok: return
run_puzzles_returns(ok) == ~ok

\* "if n in puzzles:" holds: ok = test(...), then return unless ok
run_puzzles_test(ok) ==
    /\ kernel = "run_puzzles" /\ pc[Runner] = "run"
    /\ loc[Runner].at <= NumPuzzles /\ loc[Runner].at \in cfg.puzzles
    /\ mem' = [mem EXCEPT !.tested = Append(mem.tested, loc[Runner].at)]
    /\ IF run_puzzles_returns(ok)
       THEN /\ loc' = [loc EXCEPT ![Runner].ok = ok]
            /\ pc' = [pc EXCEPT ![Runner] = "done"]
       ELSE /\ loc' = [loc EXCEPT ![Runner] = [at |-> loc[Runner].at + 1, ok |-> ok]]
            /\ UNCHANGED pc
    /\ UNCHANGED <<kernel, cfg, grid, stores, loaded, oob, aborted>>

\* "if n in puzzles:" does not hold
run_puzzles_skip ==
    /\ kernel = "run_puzzles" /\ pc[Runner] = "run"
    /\ loc[Runner].at <= NumPuzzles /\ loc[Runner].at \notin cfg.puzzles
    /\ loc' = [loc EXCEPT ![Runner].at = loc[Runner].at + 1]
    /\ UNCHANGED <<kernel, cfg, grid, mem, pc, stores, loaded, oob, aborted>>

\* print("All tests passed!")
run_puzzles_passed ==
    /\ kernel = "run_puzzles" /\ pc[Runner] = "run" /\ loc[Runner].at > NumPuzzles
    /\ mem' = [mem EXCEPT !.passed = TRUE]
    /\ pc' = [pc EXCEPT ![Runner] = "done"]
    /\ UNCHANGED <<kernel, cfg, grid, loc, stores, loaded, oob, aborted>>

\* run_puzzles(args, puzzles)
run_puzzles_launch(puzzles) ==
    Launch("run_puzzles", [puzzles |-> puzzles], <<1, 1, 1>>,
           [tested |-> <<>>, passed |-> FALSE, z |-> Zeros(0)],
           [at |-> 1, ok |-> TRUE])

InitRunner == \E puzzles \in SUBSET (1..NumPuzzles) : run_puzzles_launch(puzzles)

NextRunner ==
    \/ \E ok \in BOOLEAN : run_puzzles_test(ok)
    \/ run_puzzles_skip
    \/ run_puzzles_passed

SpecRunner == InitRunner /\ [][NextRunner]_vars

\* C13: the tests run are selected puzzles in ascending number; once a test has
\* returned not-ok the run has returned: the failed puzzle is the last one
\* tested, nothing changes any more, and "All tests passed!" is not printed,
\* which is printed only after every selected puzzle was tested and was ok.
C13_StopAtFirstFailure ==
    /\ [](kernel = "run_puzzles" =>
            /\ \A i \in 1..Len(mem.tested) :
                  /\ mem.tested[i] \in cfg.puzzles
                  /\ \A j \in 1..(i - 1) : mem.tested[j] < mem.tested[i]
            /\ ~loc[Runner].ok =>
                  /\ pc[Runner] = "done" /\ ~mem.passed
                  /\ mem.tested # <<>> /\ mem.tested[Len(mem.tested)] = loc[Runner].at
            /\ mem.passed =>
                  /\ loc[Runner].ok
                  /\ {mem.tested[i] : i \in 1..Len(mem.tested)} = cfg.puzzles)
    /\ [][(kernel = "run_puzzles" /\ ~loc[Runner].ok) => mem' = mem]_vars

\* a run that returned at a failed test while a later selected puzzle was untested
C13_Witness ==
    /\ kernel = "run_puzzles" /\ pc[Runner] = "done" /\ ~loc[Runner].ok /\ ~mem.passed
    /\ Len(mem.tested) >= 2
    /\ \E n \in cfg.puzzles : n > loc[Runner].at

----------------------------------------------------------------------------
(* The streaming kernels together: sum, softmax, flash attention, dot and      *)
(* quantized dot.                                                              *)

StreamingKernels ==
    {"sum_kernel", "softmax_kernel", "flashatt_kernel", "dot_kernel", "quant_dot_kernel"}

\* the geometries of InitSum, InitSoftmax, InitFlash, InitDot and InitQuant, each
\* with one input: whether an offset is in bounds does not depend on the data
InitStreaming ==
    \/ \E N0 \in Extents, T \in Extents, B0 \in BlockSizes, B1 \in BlockSizes :
          /\ cdiv(N0, B0) <= MaxInstances
          /\ sum_launch(N0, T, B0, B1, Fill(GridSeed, N0 * T))
    \/ sum_launch(Puzzle7N0, Puzzle7T, Puzzle7B0, Puzzle7B1, Ones(Puzzle7N0 * Puzzle7T))
    \/ \E N0 \in Extents, T \in Extents, B0 \in BlockSizes, B1 \in BlockSizes :
          /\ cdiv(N0, B0) <= MaxInstances
          /\ softmax_launch(N0, T, B0, B1,
                            [x |-> Fill(GridSeed, N0 * T),
                             z |-> [o \in 0..(N0 * T - 1) |-> QZero]])
    \/ \E N0 \in Extents, T \in Extents, B0 \in BlockSizes, B1 \in BlockSizes :
          /\ cdiv(N0, B0) <= MaxInstances
          /\ flashatt_launch(N0, T, B0, B1, Fill(GridSeed, N0), Fill(GridSeed + 1, T),
                             Fill(GridSeed + 2, T))
    \/ \E N0 \in DotExtents, N1 \in DotExtents, N2 \in DotExtents, MID \in DotExtents,
          B0 \in BlockSizes, B1 \in BlockSizes, B2 \in BlockSizes, B_MID \in BlockSizes :
          /\ cdiv(N0, B0) * cdiv(N1, B1) * cdiv(N2, B2) <= MaxInstances
          /\ dot_launch(N0, N1, N2, MID, B0, B1, B2, B_MID,
                        Fill(GridSeed, N2 * N1 * MID), Fill(GridSeed + 1, N2 * MID * N0))
    \/ \E N0 \in 1..QuantMaxExtent, N1 \in 1..QuantMaxExtent, MID \in QuantMIDs,
          B0 \in BlockSizes, B1 \in BlockSizes, B_MID \in QuantBMIDs :
          /\ cdiv(N0, B0) * cdiv(N1, B1) <= MaxInstances
          /\ quant_dot_launch(N0, N1, MID, B0, B1, B_MID, GridSeed)

NextStreaming ==
    \/ \E p \in Instances : sum_kernel_loop(p)
    \/ \E p \in Instances : sum_kernel_store(p)
    \/ \E p \in Instances : softmax_kernel_loop1(p)
    \/ \E p \in Instances : softmax_kernel_loop2(p)
    \/ \E p \in Instances : flashatt_kernel_loop(p)
    \/ \E p \in Instances : flashatt_kernel_store(p)
    \/ \E p \in Instances : dot_kernel_loop(p)
    \/ \E p \in Instances : dot_kernel_store(p)
    \/ \E p \in Instances : quant_dot_kernel_assert(p)
    \/ \E p \in Instances : quant_dot_kernel_loop(p)
    \/ \E p \in Instances : quant_dot_kernel_store(p)

SpecStreaming == InitStreaming /\ [][NextStreaming]_vars

\* C14: in every streaming kernel no load and no store has addressed, at a
\* mask-true lane, an offset outside the buffer it addresses.
C14_NoOutOfBounds ==
    kernel \in StreamingKernels => ~oob

\* a finished flashatt_kernel run whose last chunk reached past T: the lanes at
\* j >= T address offsets outside k and v and are masked off
C14_Witness ==
    /\ kernel = "flashatt_kernel" /\ AllDone /\ ~oob
    /\ cfg.T % cfg.B1 # 0
    /\ \E p \in Instances : \E b \in Lanes(cfg.B1) :
          fa_idx_j(loc[p].j0)[b] \notin DOMAIN mem.k /\ ~fa_mask_j(loc[p].j0)[b]

----------------------------------------------------------------------------
(* Termination of the grid runs of sum, softmax, flash attention, conv2d and   *)
(* dot, when a step is taken as long as some instance can take one.            *)

InitTermination ==
    \/ \E N0 \in Extents, T \in Extents, B0 \in BlockSizes, B1 \in BlockSizes :
          /\ cdiv(N0, B0) <= MaxInstances
          /\ sum_launch(N0, T, B0, B1, Fill(GridSeed, N0 * T))
    \/ \E N0 \in Extents, T \in Extents, B0 \in BlockSizes, B1 \in BlockSizes :
          /\ cdiv(N0, B0) <= MaxInstances
          /\ softmax_launch(N0, T, B0, B1,
                            [x |-> Fill(GridSeed, N0 * T),
                             z |-> [o \in 0..(N0 * T - 1) |-> QZero]])
    \/ \E N0 \in Extents, T \in Extents, B0 \in BlockSizes, B1 \in BlockSizes :
          /\ cdiv(N0, B0) <= MaxInstances
          /\ flashatt_launch(N0, T, B0, B1, Fill(GridSeed, N0), Fill(GridSeed + 1, T),
                             Fill(GridSeed + 2, T))
    \/ \E N0 \in Extents, H \in ConvImage, W \in ConvImage, KH \in BlockSizes,
          KW \in BlockSizes, B0 \in BlockSizes :
          /\ cdiv(N0, B0) <= MaxInstances
          /\ conv2d_launch(N0, H, W, KH, KW, B0, Fill(GridSeed, N0 * H * W),
                           Fill(GridSeed + 1, KH * KW))
    \/ \E N0 \in DotExtents, N1 \in DotExtents, N2 \in DotExtents, MID \in DotExtents,
          B0 \in BlockSizes, B1 \in BlockSizes, B2 \in BlockSizes, B_MID \in BlockSizes :
          /\ cdiv(N0, B0) * cdiv(N1, B1) * cdiv(N2, B2) <= MaxInstances
          /\ dot_launch(N0, N1, N2, MID, B0, B1, B2, B_MID,
                        Fill(GridSeed, N2 * N1 * MID), Fill(GridSeed + 1, N2 * MID * N0))

NextTermination ==
    \/ \E p \in Instances : sum_kernel_loop(p)
    \/ \E p \in Instances : sum_kernel_store(p)
    \/ \E p \in Instances : softmax_kernel_loop1(p)
    \/ \E p \in Instances : softmax_kernel_loop2(p)
    \/ \E p \in Instances : flashatt_kernel_loop(p)
    \/ \E p \in Instances : flashatt_kernel_store(p)
    \/ \E p \in Instances : conv2d_kernel_load_k(p)
    \/ \E p \in Instances : conv2d_kernel_iter(p)
    \/ \E p \in Instances : dot_kernel_loop(p)
    \/ \E p \in Instances : dot_kernel_store(p)

\* a step is eventually taken while some instance has one to take
SpecTermination ==
    InitTermination /\ [][NextTermination]_vars /\ WF_vars(NextTermination)

\* the start offset a streaming loop over [0, extent) in chunks has reached after
\* exactly ceil(extent / chunk) iterations
AfterAllChunks(extent, chunk) == cdiv(extent, chunk) * chunk

\* C15: every run reaches the state in which all instances are done and every
\* element of z has been stored; an instance that is done has run its streaming
\* loop exactly ceil(extent / chunk) times (conv2d: once per pixel).
C15_TerminatesWithFullOutput ==
    /\ <>(AllDone /\ \A o \in DOMAIN stores : stores[o] >= 1)
    /\ [](\A p \in Instances : pc[p] = "done" =>
            /\ kernel \in {"sum_kernel", "softmax_kernel", "flashatt_kernel"} =>
                  loc[p].k = AfterAllChunks(cfg.T, cfg.B1)
            /\ kernel = "dot_kernel" => loc[p].k = AfterAllChunks(cfg.MID, cfg.B_MID)
            /\ kernel = "conv2d_kernel" => loc[p].h = cfg.H /\ loc[p].w = 0)

\* a finished softmax_kernel run of two instances with a partial last chunk
C15_Witness ==
    /\ kernel = "softmax_kernel" /\ AllDone /\ NumInstances(grid) >= 2
    /\ cfg.T % cfg.B1 # 0 /\ cfg.T > cfg.B1
    /\ \A o \in DOMAIN stores : stores[o] >= 1

----------------------------------------------------------------------------
(* The 4-bit unpack of quant_dot_kernel against integer arithmetic.            *)

\* signed 32-bit words at the ends of the range and with the sign bit set
EdgeWords ==
    {0, 1, -1, 15, -16, 2147483647, -2147483647, (-2147483647) - 1,
     PackWord([lane \in Lanes(FPINT) |-> lane]),
     PackWord([lane \in Lanes(FPINT) |-> 2^BITS - 1 - lane])}

\* floor(w / 2^(BITS * lane)) mod 2^BITS
FloorNibble(w, lane) == (w \div (2^(BITS * lane))) % (2^BITS)

\* launches that pass the static assertions and unpack every chunk: one column of
\* z, MID a multiple of B_MID = FPINT * GROUP
InitUnpack ==
    \E N0 \in 1..QuantMaxExtent, MID \in {FPINT * GROUP * c : c \in 1..QuantMaxChunks},
       B0 \in BlockSizes, s \in Seeds :
       /\ cdiv(N0, B0) <= MaxInstances
       /\ quant_dot_launch(N0, 1, MID, B0, 1, FPINT * GROUP, s)

SpecUnpack == InitUnpack /\ [][NextQuant]_vars

\* C16: for every word of the weight and offset buffers and every edge word,
\* negative ones included, (w >> (lane * 4)) & 0xF is floor(w / 2^(4 * lane)) mod
\* 16, a value in 0..15; and in every chunk column c of the unpacked tile of a
\* valid row holds lane (l mod FPINT) of weight word (l div FPINT) of that row,
\* l = k + c, the order of extract(weight).view(-1, 64) in quant_dot_spec.
C16_UnpackExact ==
    kernel = "quant_dot_kernel" =>
        /\ \A w \in EdgeWords \cup {mem.weight[o] : o \in DOMAIN mem.weight}
                              \cup {mem.offset[o] : o \in DOMAIN mem.offset} :
              \A lane \in Lanes(FPINT) :
                 /\ ShiftMask(w, lane * BITS) = FloorNibble(w, lane)
                 /\ ShiftMask(w, lane * BITS) \in 0..(2^BITS - 1)
        /\ \A p \in Instances :
              (pc[p] = "loop" /\ loc[p].k < cfg.MID) =>
                 LET k == loc[p].k
                     tile == qd_unpack_weight(
                                LoadTile("weight", qd_idx_quant_weight(p, k),
                                         qd_msk_quant_weight(p, k)))
                 IN  \A ac \in Lanes(cfg.B0) \X Lanes(cfg.B_MID) :
                        qd_msk_m(p)[ac[1]] =>
                           tile[ac] =
                              FloorNibble(mem.weight[qd_idx_m(p)[ac[1]] * (cfg.MID \div FPINT)
                                                       + ((k + ac[2]) \div FPINT)],
                                          (k + ac[2]) % FPINT)

\* an instance has unpacked a chunk of a row that holds a negative weight word and
\* stands before its second chunk
C16_Witness ==
    /\ kernel = "quant_dot_kernel"
    /\ \E p \in Instances :
          /\ pc[p] = "loop" /\ loc[p].k > 0 /\ loc[p].k < cfg.MID
          /\ \E w \in Lanes(cfg.MID \div FPINT) :
                mem.weight[qd_idx_m(p)[0] * (cfg.MID \div FPINT) + w] < 0

----------------------------------------------------------------------------
(* The loop invariant of the first loop of softmax_kernel.                     *)

\* the number of elements of a row the first loop has streamed
sm_streamed(p) == IF pc[p] = "run" THEN loc[p].k ELSE cfg.T

\* C17: for every valid row of an instance that has streamed n > 0 elements of
\* it, the running max is the maximum of x[i, 0..n-1] and the running sum is the
\* sum of e^(x[i, j] - running max) over j < n; both keep their values through
\* the second loop, where n = T.
C17_SoftmaxLoopInvariant ==
    kernel = "softmax_kernel" =>
        \A p \in Instances : \A a \in Lanes(cfg.B0) :
           (sm_mask_i(p)[a] /\ sm_streamed(p) > 0) =>
              LET i == sm_idx_i(p)[a]
                  n == sm_streamed(p)
                  row == [j \in 0..(n - 1) |-> mem.x[i * cfg.T + j]]
              IN  /\ loc[p].global_maxs[a] = MaxRange(row, 0, n - 1)
                  /\ loc[p].sums[a] =
                        PSumRange([j \in 0..(n - 1) |->
                                      Exp2Log2e(row[j] - loc[p].global_maxs[a])],
                                  0, n - 1)

----------------------------------------------------------------------------
(* conv2d_kernel against conv2d_spec.                                          *)

\* conv2d_spec for an [N0, H, W] input and a [KH, KW] filter, flattened like z: x
\* is padded with zeros below and to the right, and z[i, h, w] is the sum of
\* k * x over the KH x KW window at (h, w)
conv2d_spec(x, k, N0, H, W, KH, KW) ==
    [o \in 0..(N0 * H * W - 1) |->
        LET i == o \div (H * W)
            h == (o % (H * W)) \div W
            w == o % W
            padded(r, c) == IF r < H /\ c < W THEN x[i * H * W + r * W + c] ELSE 0
        IN  SumRange([oj \in 0..(KH - 1) |->
                         SumRange([ol \in 0..(KW - 1) |->
                                      k[oj * KW + ol] * padded(h + oj, w + ol)],
                                  0, KW - 1)],
                     0, KH - 1)]

\* C18: once every instance of conv2d_kernel has finished, z equals conv2d_spec of
\* the zero-padded input, and every z[i, h, w] has been stored exactly once.
C18_ConvMatchesSpec ==
    (kernel = "conv2d_kernel" /\ AllDone) =>
        /\ mem.z = conv2d_spec(mem.x, mem.k, cfg.N0, cfg.H, cfg.W, cfg.KH, cfg.KW)
        /\ \A o \in DOMAIN stores : stores[o] = 1

\* a finished run of two instances whose windows reach past the right and the
\* bottom edge of a 2 x 2 image, with a nonzero output
C18_Witness ==
    /\ kernel = "conv2d_kernel" /\ AllDone /\ NumInstances(grid) >= 2
    /\ cfg.H >= 2 /\ cfg.W >= 2 /\ cfg.KH >= 2 /\ cfg.KW >= 2
    /\ \E o \in DOMAIN mem.z : mem.z[o] # 0

----------------------------------------------------------------------------
(* mul_relu_block_back_kernel against the gradient of relu(x * y[:, None]).    *)

\* mul_relu_block_back_spec, flattened like dx: backpropagation of dz through
\* relu(x[j, i] * y[j]); the derivative of relu is 1 above 0 and 0 at and below 0
mul_relu_block_back_spec(x, y, dz, N0, N1) ==
    [o \in 0..(N1 * N0 - 1) |->
        LET j == o \div N0
        IN  IF x[o] * y[j] > 0 THEN dz[o] * y[j] ELSE 0]

\* C19: once every instance of mul_relu_block_back_kernel has finished, dx is the
\* closed-form gradient, dz[j, i] * y[j] where x[j, i] * y[j] > 0 and 0 elsewhere,
\* every one of the N1 * N0 positions was stored once and no store went outside.
C19_BackwardMatchesGradient ==
    (kernel = "mul_relu_block_back_kernel" /\ AllDone) =>
        /\ mem.z = mul_relu_block_back_spec(mem.x, mem.y, mem.dz, cfg.N0, cfg.N1)
        /\ DOMAIN mem.z = 0..(cfg.N1 * cfg.N0 - 1)
        /\ \A o \in DOMAIN stores : stores[o] = 1
        /\ ~oob

\* a finished run with block sizes that do not divide the extents, a position
\* where x * y = 0 with dz * y nonzero, and a position with a nonzero gradient
C19_Witness ==
    /\ kernel = "mul_relu_block_back_kernel" /\ AllDone
    /\ cfg.N0 % cfg.B0 # 0 /\ cfg.N1 % cfg.B1 # 0
    /\ \E o \in DOMAIN mem.z :
          mem.x[o] * mem.y[o \div cfg.N0] = 0 /\ mem.dz[o] * mem.y[o \div cfg.N0] # 0
    /\ \E o \in DOMAIN mem.z : mem.z[o] # 0

====
